---- MODULE Spec2Model ----
(***************************************************************************)
(* A model of the SSA-based register allocator of the AGX compiler         *)
(* (src/asahi/compiler/agx_register_allocate.c).                           *)
(*                                                                         *)
(* Registers are 16-bit sub-units.  A bitset is modelled as the set of its *)
(* set bits.  An assertion of the code that fails, and unreachable(), stop *)
(* the compilation: the model records the message in rctx.abort and no     *)
(* further step is taken.                                                  *)
(***************************************************************************)
EXTENDS Integers, Sequences, FiniteSets, TLC

(***************************************************************************)
(* Bounds of the model.                                                    *)
(***************************************************************************)
\* ctx->alloc: the number of SSA value ids of the program (ids 0..alloc-1)
MaxValues == 5
\* the largest number of values live into the block being allocated
MaxLiveIn == 3
\* the 16-bit values among them
MaxLiveIn16 == 1
\* the instructions of the block, after its preloads
MaxInstrs == 1
\* the preloads at the top of the entry block
MaxPreloads == 2

(***************************************************************************)
(* enum agx_size and the index helpers of agx_compiler.h                   *)
(***************************************************************************)
AGX_SIZE_16 == 0
AGX_SIZE_32 == 1
AGX_SIZE_64 == 2

agx_size_align_16(size) ==
  CASE size = AGX_SIZE_16 -> 1
    [] size = AGX_SIZE_32 -> 2
    [] OTHER -> 4

\* util_next_power_of_two: the smallest power of two >= x (1 for x = 0)
RECURSIVE NextPot(_, _)
NextPot(x, p) == IF p >= x THEN p ELSE NextPot(x, 2 * p)
util_next_power_of_two(x) == NextPot(x, 1)

util_is_power_of_two_or_zero(x) == x = 0 \/ util_next_power_of_two(x) = x

MAX2(a, b) == IF a >= b THEN a ELSE b

\* An operand (agx_index).  type is one of
\* "null", "normal" (an SSA value), "register", "immediate", "uniform".
Idx(type, value, size, channels, kill, memory) ==
  [type |-> type, value |-> value, size |-> size, channels |-> channels,
   kill |-> kill, memory |-> memory]

agx_null == Idx("null", 0, AGX_SIZE_16, 1, FALSE, FALSE)

\* agx_index_size_16: the number of 16-bit sub-units an operand covers
agx_index_size_16(idx) == agx_size_align_16(idx.size) * idx.channels

ra_class_for_index(idx) == IF idx.memory THEN "RA_MEM" ELSE "RA_GPR"

\* agx_register_like: a register operand that keeps size, channels and class
agx_register_like(reg, like) == [like EXCEPT !.type = "register", !.value = reg]

\* the source slots of an instruction that hold SSA values (agx_foreach_ssa_src)
SsaSrcs(I) == {s \in 1..Len(I.src) : I.src[s].type = "normal"}
SsaDests(I) == {d \in 1..Len(I.dest) : I.dest[d].type = "normal"}

(***************************************************************************)
(* Bitsets                                                                 *)
(***************************************************************************)
Range(a, n) == a .. (a + n - 1)
BITSET_TEST_RANGE(set, a, b) == \E r \in a..b : r \in set

\* the member of a singleton set
Eval(S) == CHOOSE r \in S : TRUE

Min(S) == CHOOSE x \in S : \A y \in S : x <= y

RECURSIVE SumOver(_, _)
SumOver(S, f) ==
  IF S = {} THEN 0
  ELSE LET x == CHOOSE y \in S : TRUE IN f[x] + SumOver(S \ {x}, f)

Abort(c, msg) == IF c.abort = "" THEN [c EXCEPT !.abort = msg] ELSE c

(***************************************************************************)
(* The allocation context.  rctx is struct ra_ctx together with the arrays *)
(* it points to; the locals of find_regs that the eviction helpers share   *)
(* by pointer (copies, clobbered, killed) are fields of the same record,   *)
(* and ret holds the value returned by the last helper.                    *)
(***************************************************************************)
Values == 0 .. (MaxValues - 1)

\* AGX_NUM_REGS sub-units index reg_to_ssa; only [0, bound) is ever read
Regs(c) == 0 .. (c.bound["RA_GPR"] - 1)

\* find_regs_simple: the first aligned window with no bit set.
\* Returns [found, reg]; changes no state.
\* (variant: the first free window, aligned or not)
find_regs_simple_Unaligned(c_in, cls, count, align) ==
  Eval({ (
  LET free == {reg \in 0 .. c.bound[cls] :
                 /\ reg + count <= c.bound[cls]
                 /\ ~BITSET_TEST_RANGE(c.used_regs[cls], reg, reg + count - 1)}
  IN IF free = {} THEN [found |-> FALSE, reg |-> 0]
     ELSE [found |-> TRUE, reg |-> Min(free)]
  ) : c \in { c_in } })

\* the loop of find_regs_simple, from register reg on
RECURSIVE FindRegsLoop(_, _, _, _, _)
FindRegsLoop(c, cls, count, align, reg) ==
  IF ~(reg + count <= c.bound[cls]) THEN [found |-> FALSE, reg |-> 0]
  ELSE IF ~BITSET_TEST_RANGE(c.used_regs[cls], reg, reg + count - 1)
    THEN [found |-> TRUE, reg |-> reg]
  ELSE FindRegsLoop(c, cls, count, align, reg + align)

find_regs_simple(c_in, cls, count, align) ==
  Eval({ FindRegsLoop(c, cls, count, align, 0) : c \in { c_in } })

\* the cost find_best_region_to_evict gives the window at base
EvictMoves(c, cls, base, size, killed) ==
  Cardinality(Range(base, size) \cap c.used_regs[cls])
    + 2 * Cardinality(Range(base, size) \cap killed)

\* (variant: a window with no free sub-unit is a candidate too)
EvictCandidates_FullToo(c_in, cls, size, already_evicted) ==
  Eval({ (
  {base \in 0 .. c.bound[cls] :
     /\ base % size = 0
     /\ base + size <= c.bound[cls]
     /\ ~(base = 0 /\ c.any_cf)
     /\ ~BITSET_TEST_RANGE(already_evicted, base, base + size - 1)}
  ) : c \in { c_in } })

\* (variant: the window that holds r0l is a candidate too)
EvictCandidates_WithR0l(c_in, cls, size, already_evicted) ==
  Eval({ (
  {base \in 0 .. c.bound[cls] :
     /\ base % size = 0
     /\ base + size <= c.bound[cls]
     /\ ~BITSET_TEST_RANGE(already_evicted, base, base + size - 1)
     /\ \E reg \in Range(base, size) : reg \notin c.used_regs[cls]}
  ) : c \in { c_in } })

\* the windows the loop of find_best_region_to_evict does not skip or reject
EvictCandidates(c_in, cls, size, already_evicted) ==
  Eval({ (
  {base \in 0 .. c.bound[cls] :
     /\ base % size = 0
     /\ base + size <= c.bound[cls]
     /\ ~(base = 0 /\ c.any_cf)
     /\ ~BITSET_TEST_RANGE(already_evicted, base, base + size - 1)
     /\ \E reg \in Range(base, size) : reg \notin c.used_regs[cls]}
  ) : c \in { c_in } })

\* find_best_region_to_evict: [abort, base].  The first candidate of the
\* least cost wins (the loop replaces the best only on a strictly lower cost).
find_best_region_to_evict(c_in, cls, size, already_evicted, killed) ==
  Eval({ (
  IF ~util_is_power_of_two_or_zero(size)
    THEN [abort |-> "precondition", base |-> 0]
  ELSE IF c.bound[cls] % size # 0
    THEN [abort |-> "register file size must be aligned to the maximum vector size",
          base |-> 0]
  ELSE IF cls # "RA_GPR"
    THEN [abort |-> "cls == RA_GPR", base |-> 0]
  ELSE
    LET cand == EvictCandidates(c, cls, size, already_evicted)
        best == {b \in cand : \A o \in cand :
                   EvictMoves(c, cls, b, size, killed)
                     <= EvictMoves(c, cls, o, size, killed)}
    IN IF cand = {}
         THEN [abort |-> "not enough registers (should have spilled already)",
               base |-> 0]
         ELSE [abort |-> "", base |-> Min(best)]
  ) : c \in { c_in } })

\* (variant: max_reg follows the last assignment)
set_ssa_to_reg_LastAssigned(c_in, ssa, reg) ==
  Eval({ (
  LET cls == c.classes[ssa] IN
  [c EXCEPT !.max_reg[cls] = reg + c.ncomps[ssa] - 1,
            !.ssa_to_reg[ssa] = reg]
  ) : c \in { c_in } })

set_ssa_to_reg(c_in, ssa, reg) ==
  Eval({ (
  LET cls == c.classes[ssa] IN
  [c EXCEPT !.max_reg[cls] = MAX2(@, reg + c.ncomps[ssa] - 1),
            !.ssa_to_reg[ssa] = reg]
  ) : c \in { c_in } })

\* the copies of one variable, register by register (stride align)
CopiesOf(c_in, ssa, from, to, nr, align) ==
  Eval({ (
  [k \in 1 .. (nr \div align) |->
     [dest |-> to + (k - 1) * align, src |-> from + (k - 1) * align,
      size |-> c.sizes[ssa]]]
  ) : c \in { c_in } })

RECURSIVE assign_regs_by_copying(_, _, _, _)
RECURSIVE EvictLoop(_, _, _, _, _, _)

\* assign_regs_by_copying: claims a window of count sub-units, re-homing the
\* variables that block it.  Returns the context with ret = base.
assign_regs_by_copying(c_in, npot_count, align, I) ==
  Eval({ (
  IF c.abort # "" THEN c
  ELSE IF I.op = "PHI" THEN Abort(c, "TODO")
  ELSE
    LET count == util_next_power_of_two(npot_count) IN
    IF ~(align <= count) THEN Abort(c, "still aligned")
    ELSE
      Eval({ (
      IF fb.abort # "" THEN Abort(c, fb.abort)
      ELSE IF ~(count <= 16) THEN Abort(c, "max allocation size (conservative)")
      ELSE
        LET base == fb.base
            evict_set == {i \in 0 .. (count - 1) : (base + i) \in c.used_regs["RA_GPR"]}
            \* for the record: the window chosen, for whom, and what the
            \* search was given
            c1 == [c EXCEPT !.used_regs["RA_GPR"] = @ \cup Range(base, count),
                            !.fbs = Append(@, [size |-> count, base |-> base,
                                               npot |-> npot_count,
                                               used |-> c.used_regs["RA_GPR"],
                                               evicted |-> c.clobbered,
                                               killed |-> c.killed,
                                               caller |-> c.caller])]
        IN Eval({ IF c2.abort # "" THEN c2
                  ELSE [(IF npot_count # count
                           THEN [c2 EXCEPT !.used_regs["RA_GPR"] =
                                   @ \ ((base + npot_count) .. (base + count - 1))]
                           ELSE c2) EXCEPT !.ret = base] :
                  c2 \in { EvictLoop(c1, base, count, evict_set, 0, I) } })
      ) : fb \in { find_best_region_to_evict(c, "RA_GPR", count,
                                             c.clobbered, c.killed) } })
  ) : c \in { c_in } })

\* the loop over evict_set of assign_regs_by_copying, from index i on
EvictLoop(c_in, base, count, evict_set, i, I) ==
  Eval({ (
  IF c.abort # "" \/ i >= 16 THEN c
  ELSE IF i \notin evict_set THEN EvictLoop(c, base, count, evict_set, i + 1, I)
  ELSE
    LET reg == base + i
        ssa == c.reg_to_ssa[reg]
        nr == c.ncomps[ssa]
        align == agx_size_align_16(c.sizes[ssa])
    IN
    IF ~(nr >= 1) THEN Abort(c, "must be assigned")
    ELSE IF c.ssa_to_reg[ssa] # reg
      THEN Abort(c, "variable must start within the range, since vectors are limited")
    ELSE IF \E j \in 0 .. (nr - 1) : (i + j) \notin evict_set
      THEN Abort(c, "variable is allocated contiguous and vectors are limited, so evicted in full")
    ELSE IF ~(nr < count) THEN Abort(c, "fully contained in range that's not full")
    ELSE
      LET c1 == assign_regs_by_copying([c EXCEPT !.caller = count], nr, align, I) IN
      IF c1.abort # "" THEN c1
      ELSE
        LET new_reg == c1.ret IN
        IF new_reg % align # 0 THEN Abort(c1, "new dest must be aligned")
        ELSE IF reg % align # 0 THEN Abort(c1, "src must be aligned")
        ELSE IF c1.classes[0] # "RA_GPR" THEN Abort(c1, "cls == rctx->classes[cls]")
        ELSE
          LET c2 == [c1 EXCEPT
                       !.copies = @ \o CopiesOf(c1, ssa, reg, new_reg, nr, align),
                       !.clobbered = @ \cup Range(new_reg, nr),
                       !.moves = Append(@, [ssa |-> ssa, from |-> reg, to |-> new_reg,
                                            nr |-> nr, window |-> base,
                                            count |-> count, evicted |-> TRUE])]
              c3 == [set_ssa_to_reg(c2, ssa, new_reg) EXCEPT !.reg_to_ssa[new_reg] = ssa]
          IN EvictLoop(c3, base, count, evict_set, i + nr, I)
  ) : c \in { c_in } })

(***************************************************************************)
(* insert_copies_for_clobbered_killed                                      *)
(***************************************************************************)
\* the sequence s without the elements that fail Keep, order kept
RECURSIVE SelectSlots(_, _, _)
SelectSlots(I, c, s) ==
  IF s > Len(I.src) THEN << >>
  ELSE
    LET src == I.src[s]
        take == /\ src.type = "normal"
                /\ src.kill
                /\ ra_class_for_index(src) = "RA_GPR"
                /\ c.ssa_to_reg[src.value] \in c.clobbered
    IN (IF take THEN << src.value >> ELSE << >>) \o SelectSlots(I, c, s + 1)

Reverse(seq) == [k \in 1 .. Len(seq) |-> seq[Len(seq) + 1 - k]]

\* util_qsort_r with sort_by_size: descending enum agx_size.  qsort leaves the
\* order of equal elements open; tie_rev selects between the two stable orders.
RECURSIVE InsertBySize(_, _, _)
InsertBySize(sorted, v, sizes) ==
  IF sorted = << >> THEN << v >>
  ELSE IF sizes[Head(sorted)] >= sizes[v]
    THEN << Head(sorted) >> \o InsertBySize(Tail(sorted), v, sizes)
    ELSE << v >> \o sorted

RECURSIVE StableSortBySize(_, _)
StableSortBySize(vars, sizes) ==
  IF vars = << >> THEN << >>
  ELSE InsertBySize(StableSortBySize(SubSeq(vars, 1, Len(vars) - 1), sizes),
                    vars[Len(vars)], sizes)

sort_by_size(vars, sizes, tie_rev) ==
  StableSortBySize(IF tie_rev THEN Reverse(vars) ELSE vars, sizes)

\* the reassignment loop: variable i of vars goes to base
RECURSIVE ReassignLoop(_, _, _, _)
ReassignLoop(c_in, vars, i, base) ==
  Eval({ (
  IF c.abort # "" \/ i > Len(vars) THEN [c EXCEPT !.ret = base]
  ELSE
    LET var == vars[i]
        var_base == c.ssa_to_reg[var]
        var_count == c.ncomps[var]
        var_align == agx_size_align_16(c.sizes[var])
    IN
    IF c.classes[var] # "RA_GPR" THEN Abort(c, "construction")
    ELSE IF base % var_align # 0 THEN Abort(c, "induction")
    ELSE IF var_count % var_align # 0 THEN Abort(c, "no partial variables")
    ELSE
      LET c1 == [c EXCEPT !.copies =
                   @ \o CopiesOf(c, var, var_base, base, var_count, var_align),
                          !.moves = Append(@, [ssa |-> var, from |-> var_base,
                                               to |-> base, nr |-> var_count,
                                               window |-> 0, count |-> 0,
                                               evicted |-> FALSE])]
          c2 == [set_ssa_to_reg(c1, var, base) EXCEPT !.reg_to_ssa[base] = var]
      IN ReassignLoop(c2, vars, i + 1, base + var_count)
  ) : c \in { c_in } })

insert_copies_for_clobbered_killed(c_in, reg, count, I) ==
  Eval({ (
  IF c.abort # "" THEN c
  ELSE IF reg = 0 /\ c.any_cf THEN Abort(c, "r0l is never moved")
  ELSE
    LET c1 == [c EXCEPT !.clobbered = @ \cup Range(reg, count)]
        vars0 == SelectSlots(I, c1, 1)
    IN
    IF Len(vars0) > 16 THEN Abort(c1, "cannot clobber more than max variable size")
    ELSE IF Len(vars0) = 0 THEN c1
    ELSE
      LET vars == sort_by_size(vars0, c1.sizes, c1.tie_rev) IN
      IF reg % agx_size_align_16(c1.sizes[vars[1]]) # 0
        THEN Abort(c1, "destination alignment >= largest killed source alignment")
      ELSE
        Eval({ IF c2.abort # "" THEN c2
               ELSE IF ~(c2.ret <= reg + count) THEN Abort(c2, "no overflow")
               ELSE c2 :
               c2 \in { ReassignLoop(c1, vars, 1, reg) } })
  ) : c \in { c_in } })

(***************************************************************************)
(* find_regs                                                               *)
(***************************************************************************)
\* the registers of the visited SSA sources of I (the bitset named killed)
KilledSet(c_in, I) ==
  Eval({ (
  UNION {Range(c.ssa_to_reg[I.src[s].value], c.ncomps[I.src[s].value]) :
           s \in {t \in SsaSrcs(I) : I.src[t].value \in c.visited}}
  ) : c \in { c_in } })

\* no eviction asked for yet
NoEviction == [count |-> 0, before |-> {}, map |-> << >>]

\* find_regs: the context with ret = the register found; copies holds the
\* parallel copy emitted before I (empty when a free window was found).
find_regs(c_in, I, dest_idx, count, align) ==
  Eval({ (
  IF c.abort # "" THEN c
  ELSE IF count # align THEN Abort(c, "count == align")
  ELSE
    LET cls == ra_class_for_index(I.dest[dest_idx])
        simple == find_regs_simple(c, cls, count, align)
    IN
    IF simple.found THEN [c EXCEPT !.ret = simple.reg, !.how = "simple"]
    ELSE IF cls # "RA_GPR" THEN Abort(c, "no memory live range splits")
    ELSE
      LET c0 == [c EXCEPT !.clobbered = {}, !.copies = << >>,
                          !.killed = KilledSet(c, I), !.evicted = TRUE,
                          \* for the record: how the file stood at the call,
                          \* the windows chosen and the variables moved
                          !.fbs = << >>, !.moves = << >>, !.caller = 0,
                          !.ev = [count |-> count, before |-> c.used_regs[cls],
                                  map |-> c.ssa_to_reg]]
      IN
      Eval({ IF c1.abort # "" THEN c1
             ELSE
               Eval({ IF c2.abort # "" THEN c2
                      ELSE [c2 EXCEPT
                              !.used_regs[cls] = @ \ Range(c1.ret, count),
                              !.ret = c1.ret,
                              !.pcopies = Append(@, c2.copies), !.how = "evict",
                              !.evs = Append(@, [base |-> c1.ret, count |-> count,
                                                 before |-> c.used_regs[cls],
                                                 map |-> c.ssa_to_reg,
                                                 copies |-> c2.copies,
                                                 fbs |-> c2.fbs,
                                                 moves |-> c2.moves])] :
                      c2 \in { insert_copies_for_clobbered_killed(
                                 c1, c1.ret, count, I) } }) :
             c1 \in { assign_regs_by_copying(c0, count, align, I) } })
  ) : c \in { c_in } })

(***************************************************************************)
(* assign_regs and the rewriting of operands                               *)
(***************************************************************************)
\* (variant: the range is taken whether it is free or not)
assign_regs_Unchecked(c_in, v, reg) ==
  Eval({ (
  IF c.abort # "" THEN c
  ELSE
    LET cls == ra_class_for_index(v)
        c1 == set_ssa_to_reg(c, v.value, reg)
        end == reg + c.ncomps[v.value] - 1
    IN [c1 EXCEPT !.visited = @ \cup {v.value},
                  !.used_regs[cls] = @ \cup (reg .. end),
                  !.reg_to_ssa = IF cls = "RA_GPR"
                                   THEN [@ EXCEPT ![reg] = v.value] ELSE @]
  ) : c \in { c_in } })

assign_regs(c_in, v, reg) ==
  Eval({ (
  IF c.abort # "" THEN c
  ELSE
    LET cls == ra_class_for_index(v) IN
    IF ~(reg < c.bound[cls]) THEN Abort(c, "must not overflow register file")
    ELSE IF v.type # "normal" THEN Abort(c, "only SSA gets registers allocated")
    ELSE
      LET c1 == set_ssa_to_reg(c, v.value, reg)
          end == reg + c.ncomps[v.value] - 1
      IN
      IF v.value \in c.visited THEN Abort(c1, "SSA violated")
      ELSE IF ~(c.ncomps[v.value] >= 1) THEN Abort(c1, "ncomps >= 1")
      ELSE IF BITSET_TEST_RANGE(c.used_regs[cls], reg, end)
        THEN Abort([c1 EXCEPT !.visited = @ \cup {v.value}], "no interference")
      ELSE [c1 EXCEPT !.visited = @ \cup {v.value},
                      !.used_regs[cls] = @ \cup (reg .. end),
                      !.reg_to_ssa = IF cls = "RA_GPR"
                                       THEN [@ EXCEPT ![reg] = v.value] ELSE @]
  ) : c \in { c_in } })

\* agx_set_sources: returns [abort, I]
agx_set_sources(c_in, I) ==
  Eval({ (
  IF I.op = "PHI" THEN [abort |-> "I->op != AGX_OPCODE_PHI", I |-> I]
  ELSE IF \E s \in SsaSrcs(I) : I.src[s].value \notin c.visited
    THEN [abort |-> "no phis", I |-> I]
  ELSE [abort |-> "",
        I |-> [I EXCEPT !.src = [s \in 1 .. Len(I.src) |->
                 IF I.src[s].type = "normal"
                   THEN agx_register_like(c.ssa_to_reg[I.src[s].value], I.src[s])
                   ELSE I.src[s]]]]
  ) : c \in { c_in } })

agx_set_dests(c_in, I) ==
  Eval({ (
  [I EXCEPT !.dest = [d \in 1 .. Len(I.dest) |->
     IF I.dest[d].type = "normal"
       THEN agx_register_like(c.ssa_to_reg[I.dest[d].value], I.dest[d])
       ELSE I.dest[d]]]
  ) : c \in { c_in } })

(***************************************************************************)
(* pick_regs and its coalescing helpers                                    *)
(***************************************************************************)
\* ~0 as returned by affinity_base_of_collect: above every bound
NoBase == 2147483647

\* (variant: the source offset counted one slot too far)
affinity_base_of_collect_NextSlot(c, collect, src) ==
  LET src_reg == c.ssa_to_reg[collect.src[src].value]
      src_offset == src * agx_size_align_16(collect.src[src].size)
  IN IF src_reg >= src_offset THEN src_reg - src_offset ELSE NoBase

affinity_base_of_collect(c, collect, src) ==
  LET src_reg == c.ssa_to_reg[collect.src[src].value]
      \* slots are numbered from 1 here, from 0 in the code
      src_offset == (src - 1) * agx_size_align_16(collect.src[src].size)
  IN IF src_reg >= src_offset THEN src_reg - src_offset ELSE NoBase

\* (variant: no value may be unvisited)
try_coalesce_with_Visited(c_in, ssa, count, may_be_unvisited) ==
  Eval({ (
  IF ssa.type # "normal"
    THEN [abort |-> "ssa.type == AGX_INDEX_NORMAL", ok |-> FALSE, out |-> 0]
  ELSE IF ssa.value \notin c.visited
    THEN [abort |-> "may_be_unvisited", ok |-> FALSE, out |-> 0]
  ELSE
    LET base == c.ssa_to_reg[ssa.value]
        cls == ra_class_for_index(ssa)
    IN
    IF BITSET_TEST_RANGE(c.used_regs[cls], base, base + count - 1)
      THEN [abort |-> "", ok |-> FALSE, out |-> 0]
    ELSE IF ~(base + count <= c.bound[cls])
      THEN [abort |-> "invariant", ok |-> FALSE, out |-> 0]
    ELSE [abort |-> "", ok |-> TRUE, out |-> base]
  ) : c \in { c_in } })

\* try_coalesce_with: [abort, ok, out]
try_coalesce_with(c_in, ssa, count, may_be_unvisited) ==
  Eval({ (
  IF ssa.type # "normal"
    THEN [abort |-> "ssa.type == AGX_INDEX_NORMAL", ok |-> FALSE, out |-> 0]
  ELSE IF ssa.value \notin c.visited
    THEN [abort |-> IF may_be_unvisited THEN "" ELSE "may_be_unvisited",
          ok |-> FALSE, out |-> 0]
  ELSE
    LET base == c.ssa_to_reg[ssa.value]
        cls == ra_class_for_index(ssa)
    IN
    IF BITSET_TEST_RANGE(c.used_regs[cls], base, base + count - 1)
      THEN [abort |-> "", ok |-> FALSE, out |-> 0]
    ELSE IF ~(base + count <= c.bound[cls])
      THEN [abort |-> "invariant", ok |-> FALSE, out |-> 0]
    ELSE [abort |-> "", ok |-> TRUE, out |-> base]
  ) : c \in { c_in } })

\* nothing to coalesce with
NoCoalesce == [abort |-> "", ok |-> FALSE, out |-> 0, unvisited |-> {}]

\* the first SSA source slot, from s on, that try_coalesce_with accepts or
\* aborts on: [abort, ok, out, unvisited], unvisited the values it was
\* called for that were not visited
RECURSIVE CoalesceSrcs(_, _, _, _, _)
CoalesceSrcs(c_in, srcs, s, count, may_be_unvisited) ==
  Eval({ (
  IF s > Len(srcs) THEN NoCoalesce
  ELSE IF srcs[s].type # "normal"
    THEN CoalesceSrcs(c, srcs, s + 1, count, may_be_unvisited)
  ELSE
    Eval({ IF t.abort # "" \/ t.ok
             THEN [abort |-> t.abort, ok |-> t.ok, out |-> t.out,
                   unvisited |-> {srcs[s].value} \ c.visited]
             ELSE [CoalesceSrcs(c, srcs, s + 1, count, may_be_unvisited) EXCEPT
                     !.unvisited = @ \cup ({srcs[s].value} \ c.visited)] :
           t \in { try_coalesce_with(c, srcs[s], count, may_be_unvisited) } })
  ) : c \in { c_in } })

\* the COLLECT path of pick_regs: the bases its loop would return, in slot order
CollectDestBases(c_in, I, cls, count, align) ==
  Eval({ (
  {s \in SsaSrcs(I) :
     LET base == affinity_base_of_collect(c, I, s) IN
       /\ I.src[s].value \in c.visited
       /\ ~(base >= c.bound[cls] \/ base + count > c.bound[cls])
       /\ base % align = 0
       /\ ~BITSET_TEST_RANGE(c.used_regs[cls], base, base + count - 1)}
  ) : c \in { c_in } })

\* "try to allocate sources of collects contiguously", first loop
CollectSrcSiblings(c_in, collect, cls, our_source, align) ==
  Eval({ (
  {s \in SsaSrcs(collect) :
     /\ collect.src[s].value \in c.visited
     /\ LET base == affinity_base_of_collect(c, collect, s)
            our_reg == base + (our_source - 1) * align
        IN /\ ~(base >= c.bound[cls])
           /\ ~(our_reg + align > c.bound[cls])
           /\ ~BITSET_TEST_RANGE(c.used_regs[cls], our_reg, our_reg + align - 1)}
  ) : c \in { c_in } })

\* second loop: room for all sources of the collect contiguously
CollectRoomBases(c_in, collect, cls, align, collect_align) ==
  Eval({ (
  {base \in 0 .. c.bound[cls] :
     /\ base % collect_align = 0
     /\ base + Len(collect.src) * align <= c.bound[cls]
     /\ ~BITSET_TEST_RANGE(c.used_regs[cls], base,
                           base + Len(collect.src) * align - 1)}
  ) : c \in { c_in } })

\* third loop: respect the alignment of the collect destination
CollectAlignedRegs(c_in, cls, offset, count, collect_align) ==
  Eval({ (
  {reg \in 0 .. c.bound[cls] :
     /\ reg >= offset
     /\ (reg - offset) % collect_align = 0
     /\ reg + collect_align <= c.bound[cls]
     /\ ~BITSET_TEST_RANGE(c.used_regs[cls], reg, reg + count - 1)}
  ) : c \in { c_in } })

\* pick_regs: the context with ret = the register picked for destination d
pick_regs(c_in, I, d) ==
  Eval({ (
  IF c.abort # "" THEN c
  ELSE
    LET idx == I.dest[d]
        cls == ra_class_for_index(idx)
        count == c.ncomps[idx.value]
        align == count
        collect_phi == c.src_to_collect_phi[idx.value]
        \* PHI destination
        phi == IF I.op = "PHI"
                 THEN CoalesceSrcs(c, I.src, 1, count, c.loop_header)
                 ELSE NoCoalesce
        \* COLLECT destination
        cd == IF I.op = "COLLECT" THEN CollectDestBases(c, I, cls, count, align) ELSE {}
        \* source of a later COLLECT
        is_cs == collect_phi.op = "COLLECT"
        ours == {s \in SsaSrcs(collect_phi) : collect_phi.src[s].value = idx.value}
        our_source == IF ours = {} THEN 0 ELSE Min(ours)
        sib == IF is_cs /\ ours # {}
                 THEN CollectSrcSiblings(c, collect_phi, cls, our_source, align) ELSE {}
        \* rctx->ncomps[collect->dest[0].value], as agx_ra gathered it from
        \* the destination operand of the collect
        collect_align == IF is_cs
                           THEN util_next_power_of_two(
                                  agx_index_size_16(collect_phi.dest[1]))
                           ELSE 1
        offset == (our_source - 1) * align
        room == IF is_cs /\ ours # {}
                  THEN CollectRoomBases(c, collect_phi, cls, align, collect_align) ELSE {}
        aligned == IF is_cs /\ ours # {} /\ collect_align > align
                     THEN CollectAlignedRegs(c, cls, offset, count, collect_align) ELSE {}
        \* source of a later PHI
        is_ps == collect_phi.op = "PHI"
        ps == IF is_ps THEN CoalesceSrcs(c, collect_phi.src, 1, count, TRUE)
              ELSE NoCoalesce
        pd == is_ps /\ collect_phi.dest[1].type = "register"
                /\ ~BITSET_TEST_RANGE(c.used_regs[cls], collect_phi.dest[1].value,
                                      collect_phi.dest[1].value + count - 1)
        \* for the record: the values try_coalesce_with found unvisited, with
        \* the phi they are sources of and the value being assigned
        past_collect == ~(I.op = "COLLECT"
                            /\ \/ cd # {}
                               \/ \E s \in SsaSrcs(I) : I.src[s].value \notin c.visited)
        reads == {[value |-> v, phi |-> I, dest |-> idx.value] : v \in phi.unvisited}
                   \cup IF is_ps /\ phi.abort = "" /\ ~phi.ok /\ past_collect
                          THEN {[value |-> v, phi |-> collect_phi, dest |-> idx.value] :
                                v \in ps.unvisited}
                          ELSE {}
        \* for the record: the candidates tried for a PHI destination, up
        \* to the first one taken, and the register picked in the end
        taken == {s \in SsaSrcs(I) :
                    /\ I.op = "PHI"
                    /\ try_coalesce_with(c, I.src[s], count, c.loop_header).ok}
        tried == {[slot |-> s, value |-> I.src[s].value,
                   base |-> c.ssa_to_reg[I.src[s].value],
                   free |-> s \in taken] :
                  s \in {t \in SsaSrcs(I) : /\ I.src[t].value \in c.visited
                                            /\ \A u \in taken : t <= u}}
    IN
    Eval({ [r EXCEPT !.unvisited = @ \cup reads,
                     !.phi_picks = IF I.op = "PHI" /\ r.abort = ""
                                     THEN Append(@, [dest |-> idx.value,
                                                     loop_header |-> c.loop_header,
                                                     tried |-> tried,
                                                     skipped |-> phi.unvisited,
                                                     how |-> r.how, ret |-> r.ret])
                                     ELSE @] : r \in { (
    IF idx.type # "normal" THEN Abort(c, "idx.type == AGX_INDEX_NORMAL")
    ELSE IF ~(count >= 1) THEN Abort(c, "count >= 1")
    ELSE IF phi.abort # "" THEN Abort(c, phi.abort)
    ELSE IF phi.ok THEN [c EXCEPT !.ret = phi.out, !.how = "phi"]
    ELSE IF I.op = "COLLECT"
            /\ \E s \in SsaSrcs(I) : /\ I.src[s].value \notin c.visited
                                     /\ \A t \in cd : s < t
      THEN Abort(c, "registers assigned in an order compatible with dominance")
    ELSE IF cd # {}
      THEN [c EXCEPT !.ret = affinity_base_of_collect(c, I, Min(cd)), !.how = "collect"]
    ELSE IF is_cs /\ ours = {} THEN Abort(c, "source must be in the collect")
    ELSE IF sib # {}
      THEN [c EXCEPT !.ret = affinity_base_of_collect(c, collect_phi, Min(sib))
                               + (our_source - 1) * align,
                     !.how = "collect_src"]
    ELSE IF room # {} THEN [c EXCEPT !.ret = Min(room) + offset, !.how = "collect_room"]
    ELSE IF aligned # {} THEN [c EXCEPT !.ret = Min(aligned), !.how = "collect_align"]
    ELSE IF ps.abort # "" THEN Abort(c, ps.abort)
    ELSE IF ps.ok THEN [c EXCEPT !.ret = ps.out, !.how = "phi_src"]
    ELSE IF pd THEN [c EXCEPT !.ret = collect_phi.dest[1].value, !.how = "phi_dest"]
    ELSE find_regs(c, I, d, count, align)
    ) } })
  ) : c \in { c_in } })

(***************************************************************************)
(* agx_calc_register_demand, one instruction at a time.  The estimator     *)
(* state is [demand, max_demand, late_kill_count, abort]; widths and       *)
(* classes are the arrays its first loop gathers.                          *)
(***************************************************************************)
\* (variant: every killed slot is counted, repeated operands too)
DemandKilledSlots_EverySlot(I) ==
  {s \in 1 .. Len(I.src) :
     I.src[s].kill /\ ra_class_for_index(I.src[s]) = "RA_GPR"}

\* the killed GPR source slots that are counted: the first slot of each value
DemandKilledSlots(I) ==
  {s \in 1 .. Len(I.src) :
     /\ I.src[s].kill
     /\ ra_class_for_index(I.src[s]) = "RA_GPR"
     /\ ~\E backwards \in 1 .. (s - 1) :
           /\ I.src[backwards].type = I.src[s].type
           /\ I.src[backwards].value = I.src[s].value}

DemandDests(I) ==
  {d \in SsaDests(I) : ra_class_for_index(I.dest[d]) = "RA_GPR"}

\* the body of the loop over the instructions of a block
demand_instr(e_in, I, widths) ==
  Eval({ (
  IF e.abort # "" \/ I.op = "PHI" THEN e
  ELSE IF \E s \in 1 .. Len(I.src) : I.src[s].kill /\ I.src[s].type # "normal"
    THEN [e EXCEPT !.abort = "I->src[s].type == AGX_INDEX_NORMAL"]
  ELSE
    LET d0 == e.demand - e.late_kill_count
        killed == SumOver(DemandKilledSlots(I),
                          [s \in 1 .. Len(I.src) |-> widths[I.src[s].value]])
        made == SumOver(DemandDests(I),
                  [d \in 1 .. Len(I.dest) |->
                     util_next_power_of_two(widths[I.dest[d].value])])
        late == SumOver(DemandDests(I),
                  [d \in 1 .. Len(I.dest) |->
                     util_next_power_of_two(widths[I.dest[d].value])
                       - widths[I.dest[d].value]])
        \* unsigned arithmetic: a negative result wraps above every bound
        raw == d0 - killed + made
        d1 == IF raw < 0 THEN NoBase ELSE raw
    IN [e EXCEPT !.demand = d1, !.late_kill_count = late,
                 !.max_demand = MAX2(d1, @)]
  ) : e \in { e_in } })

\* the start of a block: nesting counter and everything live-in
\* (variant: the nesting counter is not counted)
demand_block_NoNestingCounter(e, any_cf, live_in, widths, classes) ==
  LET d == SumOver({i \in live_in : classes[i] = "RA_GPR"}, widths)
  IN [e EXCEPT !.demand = d, !.late_kill_count = 0, !.max_demand = MAX2(d, @)]

demand_block(e, any_cf, live_in, widths, classes) ==
  LET d == (IF any_cf THEN 1 ELSE 0)
             + SumOver({i \in live_in : classes[i] = "RA_GPR"}, widths)
  IN [e EXCEPT !.demand = d, !.late_kill_count = 0, !.max_demand = MAX2(d, @)]

(***************************************************************************)
(* reserve_live_in                                                         *)
(***************************************************************************)
\* agx_get_index(i, size) with the class of value i, as stashed for a
\* predecessor that has not been allocated yet
PhiStash(c, i) ==
  Idx("normal", i, c.sizes[i], 1, FALSE, c.classes[i] = "RA_MEM")

\* agx_register / agx_memory_register
PhiReg(c, i, reg) ==
  Idx("register", reg, c.sizes[i], 1, FALSE, c.classes[i] = "RA_MEM")

\* (variant: the destination is taken from the last predecessor)
LiveInPhi_LastPred(c, preds, i) ==
  LET src == [p \in 1 .. Len(preds) |->
                IF ~preds[p].done THEN PhiStash(c, i)
                ELSE PhiReg(c, i, preds[p].ssa_to_reg_out[i])]
  IN [op |-> "PHI", src |-> src, dest |-> << src[Len(preds)] >>, value |-> i]

\* the phi built for live-in value i of a block with several predecessors
LiveInPhi(c, preds, i) ==
  LET src == [p \in 1 .. Len(preds) |->
                IF ~preds[p].done THEN PhiStash(c, i)
                ELSE PhiReg(c, i, preds[p].ssa_to_reg_out[i])]
  IN [op |-> "PHI", src |-> src, dest |-> << src[1] >>, value |-> i]

\* the body of the loop over the live-in set, for value i
ReserveOne(c_in, block, i) ==
  Eval({ (
  LET nr_preds == Len(block.preds)
      phi == LiveInPhi(c, block.preds, i)
      base == IF nr_preds > 1 THEN phi.dest[1].value
              ELSE block.preds[1].ssa_to_reg_out[i]
      cls == c.classes[i]
      c1 == set_ssa_to_reg(c, i, base)
  IN
  IF nr_preds > 1 /\ ~block.loop_header /\ \E p \in 1 .. nr_preds : ~block.preds[p].done
    THEN Abort(c, "rctx->block->loop_header")
  ELSE
    [c1 EXCEPT
       !.used_regs[cls] = @ \cup Range(base, c.ncomps[i]),
       !.reg_to_ssa = IF cls = "RA_GPR"
                        THEN [r \in DOMAIN @ |->
                                IF r \in Range(base, c.ncomps[i]) THEN i ELSE @[r]]
                        ELSE @,
       !.new_phis = IF nr_preds > 1 THEN Append(@, phi) ELSE @]
  ) : c \in { c_in } })

RECURSIVE ReserveLoop(_, _, _)
ReserveLoop(c_in, block, todo) ==
  Eval({ (
  IF todo = {} \/ c.abort # "" THEN c
  ELSE LET i == Min(todo) IN ReserveLoop(ReserveOne(c, block, i), block, todo \ {i})
  ) : c \in { c_in } })

reserve_live_in(c_in, block) ==
  Eval({ (
  IF Len(block.preds) = 0 THEN c
  ELSE ReserveLoop(c, block, {i \in block.live_in : i \in c.visited})
  ) : c \in { c_in } })

\* the start of agx_ra_assign_local: fresh bitsets and map, live-in seeded,
\* the nesting counter r0l forced live
\* (variant: the nesting counter is not reserved)
BlockStart_NoNestingCounter(c_in, block) ==
  Eval({ (
  LET c0 == [c EXCEPT
               !.used_regs = [cls \in {"RA_GPR", "RA_MEM"} |-> {}],
               !.ssa_to_reg = [v \in DOMAIN @ |-> 0],
               !.reg_to_ssa = [r \in DOMAIN @ |-> 0],
               !.loop_header = block.loop_header,
               !.new_phis = << >>]
  IN reserve_live_in(c0, block)
  ) : c \in { c_in } })

BlockStart(c_in, block) ==
  Eval({ (
  LET c0 == [c EXCEPT
               !.used_regs = [cls \in {"RA_GPR", "RA_MEM"} |-> {}],
               !.ssa_to_reg = [v \in DOMAIN @ |-> 0],
               !.reg_to_ssa = [r \in DOMAIN @ |-> 0],
               !.loop_header = block.loop_header,
               !.new_phis = << >>]
      c1 == reserve_live_in(c0, block)
  IN IF c.any_cf THEN [c1 EXCEPT !.used_regs["RA_GPR"] = @ \cup {0}] ELSE c1
  ) : c \in { c_in } })

(***************************************************************************)
(* The body of the instruction loop of agx_ra_assign_local                 *)
(***************************************************************************)
\* agx_split_width: the size of the non-null destinations ("": none or mixed)
agx_split_width(I) ==
  LET sz == {I.dest[d].size : d \in {e \in 1 .. Len(I.dest) : I.dest[e].type # "null"}}
  IN IF Cardinality(sz) = 1 THEN CHOOSE x \in sz : TRUE ELSE -1

\* (variant: the lane of a null destination stays occupied)
RECURSIVE SplitLoop_NullKept(_, _, _, _, _)
SplitLoop_NullKept(c_in, I, d, reg, width) ==
  Eval({ (
  IF c.abort # "" \/ d > Len(I.dest) THEN c
  ELSE
    LET offset_reg == reg + (d - 1) * width
        c1 == [c EXCEPT !.used_regs["RA_GPR"] = @ \ Range(offset_reg, width)]
        c2 == IF I.dest[d].type # "null" THEN assign_regs(c1, I.dest[d], offset_reg)
              ELSE c
    IN IF ra_class_for_index(I.dest[1]) # "RA_GPR"
         THEN Abort(c, "ra_class_for_index(I->dest[0]) == RA_GPR")
         ELSE SplitLoop_NullKept(c2, I, d + 1, reg, width)
  ) : c \in { c_in } })

\* the loop over the destinations of a SPLIT whose source is killed
RECURSIVE SplitLoop(_, _, _, _, _)
SplitLoop(c_in, I, d, reg, width) ==
  Eval({ (
  IF c.abort # "" \/ d > Len(I.dest) THEN c
  ELSE
    LET offset_reg == reg + (d - 1) * width
        c1 == [c EXCEPT !.used_regs["RA_GPR"] = @ \ Range(offset_reg, width)]
        c2 == IF I.dest[d].type # "null" THEN assign_regs(c1, I.dest[d], offset_reg)
              ELSE c1
    IN IF ra_class_for_index(I.dest[1]) # "RA_GPR"
         THEN Abort(c, "ra_class_for_index(I->dest[0]) == RA_GPR")
         ELSE SplitLoop(c2, I, d + 1, reg, width)
  ) : c \in { c_in } })

\* (variant: only the first killed source is freed)
FreeKilled_FirstKilled(c_in, I) ==
  Eval({ (
  LET ks == {t \in SsaSrcs(I) : I.src[t].kill}
      first == {t \in ks : \A u \in ks : t <= u}
  IN
  [c EXCEPT !.used_regs = [cls \in DOMAIN @ |->
     @[cls] \ UNION {Range(c.ssa_to_reg[I.src[s].value], c.ncomps[I.src[s].value]) :
                       s \in {t \in first : ra_class_for_index(I.src[t]) = cls}}]]
  ) : c \in { c_in } })

\* (variant: the registers of every source are freed, killed or not)
FreeKilled_EverySource(c_in, I) ==
  Eval({ (
  [c EXCEPT !.used_regs = [cls \in DOMAIN @ |->
     @[cls] \ UNION {Range(c.ssa_to_reg[I.src[s].value], c.ncomps[I.src[s].value]) :
                       s \in {t \in SsaSrcs(I) :
                                ra_class_for_index(I.src[t]) = cls}}]]
  ) : c \in { c_in } })

\* "first, free killed sources"
FreeKilled(c_in, I) ==
  Eval({ (
  [c EXCEPT !.used_regs = [cls \in DOMAIN @ |->
     @[cls] \ UNION {Range(c.ssa_to_reg[I.src[s].value], c.ncomps[I.src[s].value]) :
                       s \in {t \in SsaSrcs(I) :
                                I.src[t].kill /\ ra_class_for_index(I.src[t]) = cls}}]]
  ) : c \in { c_in } })

\* "next, assign destinations one at a time"
RECURSIVE DestLoop(_, _, _)
DestLoop(c_in, I, d) ==
  Eval({ (
  IF c.abort # "" \/ d > Len(I.dest) THEN c
  ELSE IF I.dest[d].type # "normal" THEN DestLoop(c, I, d + 1)
  ELSE
    Eval({ DestLoop([assign_regs(p, I.dest[d], p.ret) EXCEPT
                       !.hows = Append(@, p.how)], I, d + 1) :
           p \in { pick_regs(c, I, d) } })
  ) : c \in { c_in } })

\* one iteration of the loop: the context after I, with I as rewritten.
\* For the record: start is the occupancy and the map the iteration began
\* with, after_free the occupancy when the first destination is picked.
ra_instr(c_in, I) ==
  Eval({ (
  LET c0 == [c EXCEPT !.pcopies = << >>, !.hows = << >>, !.evicted = FALSE,
                      !.copies = << >>, !.clobbered = {}, !.killed = {},
                      !.ev = NoEviction, !.evs = << >>,
                      !.fbs = << >>, !.moves = << >>, !.caller = 0,
                      !.start = [used_regs |-> c.used_regs,
                                 ssa_to_reg |-> c.ssa_to_reg],
                      !.after_free = c.used_regs] IN
  IF I.op = "SPLIT" /\ I.src[1].kill THEN
    IF ra_class_for_index(I.src[1]) # "RA_GPR"
      THEN Abort(c0, "ra_class_for_index(I->src[0]) == RA_GPR")
    ELSE IF agx_split_width(I) = -1 THEN Abort(c0, "should have been DCE'd")
    ELSE
      LET reg == c0.ssa_to_reg[I.src[1].value]
          width == agx_size_align_16(agx_split_width(I))
          c1 == SplitLoop(c0, I, 1, reg, width)
          nc == c0.ncomps[I.src[1].value]
          c2 == IF nc - Len(I.dest) * width # 0
                  THEN [c1 EXCEPT !.used_regs["RA_GPR"] =
                          @ \ ((reg + Len(I.dest) * width) .. (reg + nc - 1))]
                  ELSE c1
          ss == agx_set_sources(c2, I)
      IN IF c1.abort # "" THEN c1
         ELSE IF ss.abort # "" THEN Abort(c2, ss.abort)
         ELSE [c2 EXCEPT !.I = agx_set_dests(c2, ss.I), !.hows = << "split" >>]
  ELSE IF I.op = "PRELOAD" THEN
    IF I.dest[1].size # I.src[1].size
      THEN Abort(c0, "I->dest[0].size == I->src[0].size")
    ELSE IF I.src[1].type # "register"
      THEN Abort(c0, "I->src[0].type == AGX_INDEX_REGISTER")
    ELSE
      LET c1 == assign_regs(c0, I.dest[1], I.src[1].value) IN
      IF c1.abort # "" THEN c1
      ELSE [c1 EXCEPT !.I = agx_set_dests(c1, I), !.hows = << "preload" >>]
  ELSE
    Eval({ IF c2.abort # "" THEN c2
           ELSE Eval({ IF ss.abort # "" THEN Abort(c2, ss.abort)
                       ELSE [c2 EXCEPT !.I = agx_set_dests(c2, ss.I)] :
                       ss \in { IF I.op # "PHI" THEN agx_set_sources(c2, I)
                                ELSE [abort |-> "", I |-> I] } }) :
           c2 \in { Eval({ DestLoop([f EXCEPT !.after_free = f.used_regs], I, 1) :
                           f \in { FreeKilled(c0, I) } }) } })
  ) : c \in { c_in } })

(***************************************************************************)
(* The register file handed to the allocator                               *)
(***************************************************************************)
\* the widest value of the model: a 4-channel 32-bit vector
max_ncomps == 8
reg_file_alignment == MAX2(max_ncomps, 8)
ALIGN_POT(x, a) == ((x + a - 1) \div a) * a
\* max_regs as agx_ra bounds it tightly (AGX_DBG_DEMAND) for the demand of a
\* program: the smallest file the driver ever hands out
MaxRegsFor(demand) == ALIGN_POT(MAX2(demand, 12), reg_file_alignment)
max_regs == MaxRegsFor(0)
\* AGX_NUM_MODELED_REGS, the stack slots of the memory class
NumMemRegs == 4

(***************************************************************************)
(* State                                                                   *)
(***************************************************************************)
VARIABLES
  rctx,     \* struct ra_ctx and the arrays it points to; I is the instruction
            \* last allocated, as rewritten
  block,    \* the block being allocated: preds, live_in, loop_header
  instr,    \* the instruction last allocated, as it was before rewriting
  live,     \* the SSA values live at this point of the block
  regfile,  \* what each register holds: <<value, lane>>, or NoVal
  misread,  \* source slots of the last instruction that read a register
            \* not holding their value
  est,      \* the state of agx_calc_register_demand over the same program
  steps,    \* the instructions allocated so far, preloads aside
  pc,       \* "seed", "walk", "done", "abort"
  ctx       \* agx_context: the program agx_ra is given and what it keeps
            \* about it

vars == << rctx, block, instr, live, regfile, misread, est, steps, pc, ctx >>

\* no program: a block is allocated on its own
NoCtx == [prog |-> << >>]

NoVal == << -1, 0 >>
NoInstr == [op |-> "NONE", src |-> << >>, dest |-> << >>]

\* the (size, channels) of the values of the model
Shapes ==
  { [size |-> AGX_SIZE_16, channels |-> 1],
    [size |-> AGX_SIZE_32, channels |-> 1],
    [size |-> AGX_SIZE_16, channels |-> 2],
    [size |-> AGX_SIZE_32, channels |-> 2],
    [size |-> AGX_SIZE_32, channels |-> 4] }

\* the shapes of the values live into the block
LiveInShapes == Shapes \ { [size |-> AGX_SIZE_16, channels |-> 2] }

ShapeWidth(sh) == util_next_power_of_two(agx_size_align_16(sh.size) * sh.channels)

\* (variant: the width of one channel is taken for the width of the value)
Gather_OneChannel(c_in, idx) ==
  Eval({ (
  IF idx.type # "normal" THEN c
  ELSE IF c.ncomps[idx.value] # 0 THEN Abort(c, "broken SSA")
  ELSE [c EXCEPT !.ncomps[idx.value] = agx_size_align_16(idx.size),
                 !.sizes[idx.value] = idx.size,
                 !.classes[idx.value] = ra_class_for_index(idx)]
  ) : c \in { c_in } })

\* agx_ra gathering ncomps, sizes and classes of a destination (and the
\* estimator its widths and classes)
Gather(c_in, idx) ==
  Eval({ (
  IF idx.type # "normal" THEN c
  ELSE IF c.ncomps[idx.value] # 0 THEN Abort(c, "broken SSA")
  ELSE [c EXCEPT !.ncomps[idx.value] = util_next_power_of_two(agx_index_size_16(idx)),
                 !.sizes[idx.value] = idx.size,
                 !.classes[idx.value] = ra_class_for_index(idx)]
  ) : c \in { c_in } })

RECURSIVE GatherAll(_, _, _)
GatherAll(c_in, dests, d) ==
  Eval({ (
  IF d > Len(dests) THEN c ELSE GatherAll(Gather(c, dests[d]), dests, d + 1)
  ) : c \in { c_in } })

\* the context agx_ra hands to agx_ra_assign_local, for value ids ids and
\* the bounds gpr and mem of the two classes
NewCtx(any_cf, ids, gpr, mem) ==
  [any_cf |-> any_cf,
   loop_header |-> FALSE,
   ssa_to_reg |-> [v \in ids |-> 0],
   ncomps |-> [v \in ids |-> 0],
   sizes |-> [v \in ids |-> AGX_SIZE_16],
   classes |-> [v \in ids |-> "RA_GPR"],
   visited |-> {},
   used_regs |-> [cls \in {"RA_GPR", "RA_MEM"} |-> {}],
   max_reg |-> [cls \in {"RA_GPR", "RA_MEM"} |-> 0],
   src_to_collect_phi |-> [v \in ids |-> NoInstr],
   reg_to_ssa |-> [r \in 0 .. (gpr - 1) |-> 0],
   bound |-> [cls \in {"RA_GPR", "RA_MEM"} |->
                IF cls = "RA_GPR" THEN gpr ELSE mem],
   abort |-> "",
   copies |-> << >>, clobbered |-> {}, killed |-> {}, ret |-> 0,
   tie_rev |-> FALSE, evicted |-> FALSE, pcopies |-> << >>,
   how |-> "", hows |-> << >>, new_phis |-> << >>, unvisited |-> {},
   ev |-> NoEviction, evs |-> << >>,
   fbs |-> << >>, moves |-> << >>, caller |-> 0, phi_picks |-> << >>,
   start |-> [used_regs |-> [cls \in {"RA_GPR", "RA_MEM"} |-> {}],
              ssa_to_reg |-> [v \in ids |-> 0]],
   after_free |-> [cls \in {"RA_GPR", "RA_MEM"} |-> {}],
   I |-> NoInstr]

EmptyCtx(any_cf) == NewCtx(any_cf, Values, max_regs, NumMemRegs)

EmptyEst ==
  [demand |-> 0, max_demand |-> 0, late_kill_count |-> 0, abort |-> ""]

(***************************************************************************)
(* What the registers hold                                                 *)
(***************************************************************************)
\* one parallel copy: every source is read before any destination is written
ApplyPCopy(rf, copies) ==
  [r \in DOMAIN rf |->
     LET hit == {k \in 1 .. Len(copies) :
                   r \in Range(copies[k].dest, agx_size_align_16(copies[k].size))}
     IN IF hit = {} THEN rf[r]
        ELSE LET k == CHOOSE x \in hit : \A y \in hit : y <= x
             IN rf[copies[k].src + (r - copies[k].dest)]]

RECURSIVE ApplyPCopies(_, _)
ApplyPCopies(rf, pcs) ==
  IF pcs = << >> THEN rf ELSE ApplyPCopies(ApplyPCopy(rf, Head(pcs)), Tail(pcs))

\* the registers a value covers after the instruction wrote it
WriteDests(rf, c, I) ==
  [r \in DOMAIN rf |->
     LET w == {d \in SsaDests(I) :
                 /\ ra_class_for_index(I.dest[d]) = "RA_GPR"
                 /\ r \in Range(c.ssa_to_reg[I.dest[d].value],
                                c.ncomps[I.dest[d].value])}
     IN IF w = {} THEN rf[r]
        ELSE LET d == CHOOSE x \in w : TRUE
             IN << I.dest[d].value, r - c.ssa_to_reg[I.dest[d].value] >>]

\* the GPR source slots of I (as rewritten in c.I) whose register does not
\* hold the value of the slot when I executes
Misread(rf, c, I) ==
  {s \in SsaSrcs(I) :
     /\ ra_class_for_index(I.src[s]) = "RA_GPR"
     /\ \E j \in 0 .. (c.ncomps[I.src[s].value] - 1) :
          rf[c.I.src[s].value + j] # << I.src[s].value, j >>}

(***************************************************************************)
(* The programs of the model                                               *)
(***************************************************************************)
\* the most SSA sources of an ALU instruction
MaxSrcs == 2
\* the most slots of one instruction that name the same value
MaxRepeat == 3

\* the destination operand for a new value
NewIdx(v, sh) == Idx("normal", v, sh.size, sh.channels, FALSE, FALSE)

\* a source operand for a live value
SrcIdx(c, v, channels, kill) == Idx("normal", v, c.sizes[v], channels, kill, FALSE)

\* the channels of value v, from its width
ChannelsOf(c, v) == c.ncomps[v] \div agx_size_align_16(c.sizes[v])

\* the next unused SSA index
NextValue(c) == Cardinality(c.visited)

\* ascending sequences of at most n distinct members of S
RECURSIVE AscSeqs(_, _)
AscSeqs(S, n) ==
  IF n = 0 \/ S = {} THEN { << >> }
  ELSE { << >> } \cup
       UNION { { << v >> \o rest : rest \in AscSeqs({w \in S : w > v}, n - 1) } :
               v \in S }

\* the source lists that name one value of S in every slot, 2 to MaxRepeat
\* slots long
RepSeqs(S) == { [i \in 1 .. n |-> v] : v \in S, n \in 2 .. MaxRepeat }

\* the collect a new scalar v may be a source of: none, first of a pair whose
\* other source is defined later, or either half of a pair with a live scalar
Promises(c, alive, v, sh) ==
  { NoInstr } \cup
  IF sh.channels # 1 THEN {}
  ELSE
    LET me == NewIdx(v, sh)
        dst == Idx("normal", MaxValues, sh.size, 2, FALSE, FALSE)
        later == Idx("normal", MaxValues, sh.size, 1, FALSE, FALSE)
        pals == {x \in alive : c.sizes[x] = sh.size /\ ChannelsOf(c, x) = 1}
    IN { [op |-> "COLLECT", src |-> << me, later >>, dest |-> << dst >>] } \cup
       UNION { { [op |-> "COLLECT", src |-> << SrcIdx(c, x, 1, FALSE), me >>,
                  dest |-> << dst >>],
                 [op |-> "COLLECT", src |-> << me, SrcIdx(c, x, 1, FALSE) >>,
                  dest |-> << dst >>] } : x \in pals }

(***************************************************************************)
(* agx_ra_assign_local over one block                                      *)
(***************************************************************************)
NoPromise == [v \in Values |-> NoInstr]

Init ==
  /\ \E any_cf \in BOOLEAN : rctx = EmptyCtx(any_cf)
  /\ block = [preds |-> << >>, live_in |-> {}, loop_header |-> FALSE,
              ssa_to_reg_out |-> [v \in Values |-> 0]]
  /\ instr = NoInstr
  /\ live = {}
  /\ regfile = [r \in 0 .. (max_regs - 1) |-> NoVal]
  /\ misread = {}
  /\ est = EmptyEst
  /\ steps = 0
  /\ pc = "seed"
  /\ ctx = NoCtx

\* the predecessor of the block defined one more value that lives into the
\* block: above those it already holds, aligned to its width, off r0l
PredAssign ==
  /\ pc = "seed"
  /\ Cardinality(block.live_in) < MaxLiveIn
  /\ \E sh \in LiveInShapes : \E base \in 0 .. (max_regs - 1) :
       LET v == Cardinality(block.live_in)
           out == IF v = 0 THEN [x \in Values |-> 0]
                  ELSE block.preds[1].ssa_to_reg_out
           lo == IF v = 0 THEN (IF rctx.any_cf THEN 1 ELSE 0)
                 ELSE out[v - 1] + rctx.ncomps[v - 1]
           c1 == Gather(rctx, NewIdx(v, sh))
       IN /\ sh.size = AGX_SIZE_16 =>
               Cardinality({x \in block.live_in : rctx.sizes[x] = AGX_SIZE_16})
                 < MaxLiveIn16
          /\ base >= lo
          /\ base % ShapeWidth(sh) = 0
          /\ base + ShapeWidth(sh) <= max_regs
          /\ rctx' = [c1 EXCEPT !.visited = @ \cup {v},
                                !.max_reg["RA_GPR"] =
                                  MAX2(@, base + ShapeWidth(sh) - 1)]
          /\ block' = [block EXCEPT
                         !.preds = << [done |-> TRUE,
                                       ssa_to_reg_out |-> [out EXCEPT ![v] = base]] >>,
                         !.live_in = @ \cup {v}]
  /\ UNCHANGED << instr, live, regfile, misread, est, steps, pc, ctx >>

\* the start of agx_ra_assign_local for the block, and of the estimator's
\* walk of it
ReserveLiveIn ==
  /\ pc = "seed"
  /\ LET c1 == BlockStart(rctx, block)
         e == demand_block(est, rctx.any_cf, block.live_in, rctx.ncomps, rctx.classes)
     IN /\ e.max_demand <= max_regs
        /\ rctx' = c1
        /\ live' = block.live_in
        /\ regfile' = [r \in 0 .. (max_regs - 1) |->
                         LET at == {v \in block.live_in :
                                      r \in Range(c1.ssa_to_reg[v], c1.ncomps[v])}
                         IN IF at = {} THEN NoVal
                            ELSE LET v == CHOOSE x \in at : TRUE
                                 IN << v, r - c1.ssa_to_reg[v] >>]
        /\ est' = e
        /\ pc' = "walk"
        /\ UNCHANGED << block, instr, misread, steps, ctx >>

\* one iteration of the instruction loop, for instruction I of a program
\* whose register demand fits the file
Alloc(I, rev, promise) ==
  \E c0 \in { GatherAll([rctx EXCEPT !.tie_rev = rev, !.src_to_collect_phi = promise],
                        I.dest, 1) } :
  \E c1 \in { ra_instr(c0, I) } :
  \E e \in { demand_instr(est, I, c0.ncomps) } :
  \E rf1 \in { ApplyPCopies(regfile, c1.pcopies) } :
  LET gone == {I.src[s].value : s \in {t \in SsaSrcs(I) : I.src[t].kill}}
      made == {I.dest[d].value : d \in SsaDests(I)}
  IN /\ e.abort = ""
     /\ e.max_demand <= max_regs
     /\ est' = e
     /\ instr' = I
     /\ block' = block
     /\ ctx' = ctx
     /\ IF c1.abort # ""
          THEN /\ rctx' = c1
               /\ pc' = "abort"
               /\ UNCHANGED << live, regfile, misread >>
          ELSE /\ rctx' = [c1 EXCEPT !.tie_rev = rev /\ c1.evicted]
               /\ pc' = pc
               /\ live' = (live \ gone) \cup made
               /\ misread' = Misread(rf1, c1, I)
               /\ regfile' = WriteDests(rf1, c1, I)

\* an ordinary instruction: up to MaxSrcs live sources, some killed, or one
\* live source named in up to MaxRepeat slots and killed, and at most one
\* destination, which may be the source of a later collect
AluInstr ==
  /\ pc = "walk"
  /\ steps < MaxInstrs
  /\ steps' = steps + 1
  /\ \E srcs \in AscSeqs(live, MaxSrcs) \cup RepSeqs(live) :
     \E K \in IF srcs \in RepSeqs(live) THEN { {srcs[1]} }
              ELSE SUBSET {srcs[i] : i \in 1 .. Len(srcs)} :
     \E rev \in IF \E a \in K : \E b \in K \ {a} : rctx.ncomps[a] = rctx.ncomps[b]
                  THEN BOOLEAN ELSE {FALSE} :
       LET src == [i \in 1 .. Len(srcs) |->
                     SrcIdx(rctx, srcs[i], ChannelsOf(rctx, srcs[i]), srcs[i] \in K)]
           v == NextValue(rctx)
       IN \/ /\ K # {}
             /\ Alloc([op |-> "ALU", src |-> src, dest |-> << >>], rev, NoPromise)
          \/ /\ v < MaxValues
             /\ \E sh \in Shapes :
                \E pr \in IF srcs = << >> THEN Promises(rctx, live, v, sh)
                           ELSE { NoInstr } :
                  Alloc([op |-> "ALU", src |-> src, dest |-> << NewIdx(v, sh) >>],
                        rev, [NoPromise EXCEPT ![v] = pr])

\* a COLLECT of two live scalars of one size into a 2-channel vector
CollectInstr ==
  /\ pc = "walk"
  /\ steps < MaxInstrs
  /\ steps' = steps + 1
  /\ NextValue(rctx) < MaxValues
  /\ \E a \in live : \E b \in live \ {a} : \E ka \in BOOLEAN : \E kb \in BOOLEAN :
       /\ ChannelsOf(rctx, a) = 1
       /\ ChannelsOf(rctx, b) = 1
       /\ rctx.sizes[a] = rctx.sizes[b]
       /\ \E rev \in IF ka /\ kb THEN BOOLEAN ELSE {FALSE} :
            Alloc([op |-> "COLLECT",
                   src |-> << SrcIdx(rctx, a, 1, ka), SrcIdx(rctx, b, 1, kb) >>,
                   dest |-> << Idx("normal", NextValue(rctx), rctx.sizes[a], 2,
                                   FALSE, FALSE) >>],
                  rev, NoPromise)

\* the channels a live vector may have: those its width holds, or three
\* when its width was rounded up to four
SplitChannels(c, v) ==
  {ChannelsOf(c, v)} \cup (IF ChannelsOf(c, v) = 4 THEN {3} ELSE {})

\* a SPLIT of a live vector into its channels, some of them unused
SplitInstr ==
  /\ pc = "walk"
  /\ steps < MaxInstrs
  /\ steps' = steps + 1
  /\ \E s \in live : \E kill \in BOOLEAN : \E n \in SplitChannels(rctx, s) :
     \E used \in SUBSET (1 .. n) :
       /\ n >= 2
       /\ used # {}
       /\ NextValue(rctx) + Cardinality(used) <= MaxValues
       /\ Alloc([op |-> "SPLIT",
                 src |-> << SrcIdx(rctx, s, n, kill) >>,
                 dest |-> [d \in 1 .. n |->
                             IF d \in used
                               THEN Idx("normal",
                                        NextValue(rctx)
                                          + Cardinality({u \in used : u < d}),
                                        rctx.sizes[s], 1, FALSE, FALSE)
                               ELSE agx_null]],
                FALSE, NoPromise)

\* a PRELOAD at the top of the entry block: the preloaded registers are
\* disjoint (taken in ascending order) and none is the nesting counter r0l
PreloadInstr ==
  /\ pc = "walk"
  /\ block.preds = << >>
  /\ steps = 0
  /\ NextValue(rctx) < MaxPreloads
  /\ steps' = steps
  /\ \E size \in {AGX_SIZE_16, AGX_SIZE_32} : \E reg \in 0 .. (max_regs - 1) :
       /\ reg % agx_size_align_16(size) = 0
       /\ rctx.any_cf => reg >= 1
       /\ instr.op = "PRELOAD" =>
            reg >= instr.src[1].value + agx_size_align_16(instr.src[1].size)
       /\ Alloc([op |-> "PRELOAD",
                 src |-> << Idx("register", reg, size, 1, FALSE, FALSE) >>,
                 dest |-> << Idx("normal", NextValue(rctx), size, 1, FALSE, FALSE) >>],
                FALSE, NoPromise)

Next ==
  \/ PredAssign
  \/ ReserveLiveIn
  \/ AluInstr
  \/ CollectInstr
  \/ SplitInstr
  \/ PreloadInstr

Spec == Init /\ [][Next]_vars

(***************************************************************************)
(* Properties of the allocation of a block                                 *)
(***************************************************************************)
\* the registers value v is mapped to
RangeOf(c, v) == Range(c.ssa_to_reg[v], c.ncomps[v])

\* the values the last instruction defined
Made == {instr.dest[d].value : d \in SsaDests(instr)}

\* no two live values of one class share a register, none passes the bound
NoInterference ==
  /\ \A v \in live :
       rctx.ssa_to_reg[v] + rctx.ncomps[v] <= rctx.bound[rctx.classes[v]]
  /\ \A v \in live : \A w \in live \ {v} :
       rctx.classes[v] = rctx.classes[w] =>
         RangeOf(rctx, v) \cap RangeOf(rctx, w) = {}

\* every live general-purpose value is in the registers it is mapped to
ContentsKept ==
  \A v \in live :
    rctx.classes[v] = "RA_GPR" =>
      \A j \in 0 .. (rctx.ncomps[v] - 1) :
        regfile[rctx.ssa_to_reg[v] + j] = << v, j >>

\* C1: at every point of agx_ra_assign_local (after the live-in values are
\* seeded and after the destinations of each instruction are assigned) the
\* ranges of the live values of a class are pairwise disjoint and inside
\* the bound of the class.
C1_LiveRangesDisjoint == pc = "walk" => NoInterference

\* an eviction went through with three values live across or out of it
C1_Witness ==
  /\ pc = "walk"
  /\ rctx.evicted
  /\ Cardinality(live) >= 3
  /\ \E k \in 1 .. Len(rctx.pcopies) : rctx.pcopies[k] # << >>

\* the window of eviction E and the values that sat in it
WindowOf(E) == Range(E.base, E.count)
OccupantsOf(E) ==
  {v \in live \ Made : Range(E.map[v], rctx.ncomps[v]) \cap WindowOf(E) # {}}

\* what an eviction that returned has to leave behind
EvictionSound ==
  /\ \A n \in 1 .. Len(rctx.evs) :
       LET E == rctx.evs[n] IN
       /\ WindowOf(E) \ E.before # {}
       /\ \A v \in OccupantsOf(E) : \A j \in 0 .. (rctx.ncomps[v] - 1) :
            \E k \in 1 .. Len(E.copies) :
              E.map[v] + j \in Range(E.copies[k].src,
                                     agx_size_align_16(E.copies[k].size))
       /\ \A v \in live : RangeOf(rctx, v) \cap WindowOf(E) # {} => v \in Made
  /\ ContentsKept
  /\ misread = {}
  /\ NoInterference

\* find_regs was sent to eviction with at least count sub-units free
EvictionCalled ==
  /\ rctx.ev.count > 0
  /\ Cardinality(rctx.ev.before) + rctx.ev.count <= rctx.bound["RA_GPR"]

\* C2: when find_regs falls back to eviction with at least count sub-units
\* free in total, it returns a window that had a free sub-unit, every
\* register of every value that sat in the window is the source of a
\* relocation copy, and after the step every live value (and every source
\* the instruction reads) is where the map says, with the live ranges
\* disjoint and only the new destination inside the window.
C2_EvictionKeepsValues ==
  EvictionCalled => (pc = "walk" /\ rctx.evs # << >> /\ EvictionSound)

\* instruction I names one value in two source slots
Repeats(I) ==
  \E s \in SsaSrcs(I) : \E t \in SsaSrcs(I) \ {s} : I.src[s].value = I.src[t].value

\* the evictions that do return, for an instruction whose sources are
\* distinct values, leave the values in place
EvictionSoundWhenReturned ==
  (pc = "walk" /\ rctx.evs # << >> /\ ~Repeats(instr)) => EvictionSound

\* an eviction moved a live value out of the window and a killed source
\* into it
EvictionMovedBoth ==
  /\ pc = "walk"
  /\ Len(rctx.evs) = 1
  /\ OccupantsOf(rctx.evs[1]) # {}
  /\ \E s \in SsaSrcs(instr) :
       /\ instr.src[s].kill
       /\ rctx.ssa_to_reg[instr.src[s].value] \in WindowOf(rctx.evs[1])

\* C3: when eviction is invoked for a width count with occupied + count
\* <= bound and bound a multiple of count, find_best_region_to_evict finds a
\* window at the top level and in every re-homing call: the walk never
\* stops on "not enough registers (should have spilled already)".
C3_EvictionFindsWindow ==
  rctx.abort = "not enough registers (should have spilled already)" =>
    ~(/\ Cardinality(rctx.ev.before) + rctx.ev.count <= rctx.bound["RA_GPR"]
      /\ rctx.bound["RA_GPR"] % rctx.ev.count = 0)

\* the SSA sources of the COLLECT I sit, slot by slot, in one range that is
\* in bounds and aligned to the width of the destination
CollectLayout(c, I) ==
  LET w == agx_size_align_16(I.src[1].size)
      count == w * Len(I.src)
      base == c.ssa_to_reg[I.src[1].value]
  IN
  /\ \A s \in 1 .. Len(I.src) :
       /\ I.src[s].type = "normal"
       /\ c.ssa_to_reg[I.src[s].value] = base + (s - 1) * w
  /\ base + count <= c.bound["RA_GPR"]
  /\ base % count = 0

\* the destination of the COLLECT I took the range of its sources, and
\* nothing was evicted or copied
CollectCoalesced(c, I) ==
  /\ c.ssa_to_reg[I.dest[1].value] = c.ssa_to_reg[I.src[1].value]
  /\ ~c.evicted
  /\ \A k \in 1 .. Len(c.pcopies) : c.pcopies[k] = << >>

\* a COLLECT was allocated in this step
CollectStep == steps' = steps + 1 /\ instr'.op = "COLLECT" /\ pc' = "walk"

MaxDemandBlocks == 2
MaxDemandInstrs == 2
MaxDemandValues == 3

\* what the estimator is given: scalars, vectors that are not a power of
\* two wide, and values of the memory class
DemandShapes ==
  { [size |-> AGX_SIZE_16, channels |-> 1, memory |-> FALSE],
    [size |-> AGX_SIZE_32, channels |-> 1, memory |-> FALSE],
    [size |-> AGX_SIZE_16, channels |-> 3, memory |-> FALSE],
    [size |-> AGX_SIZE_32, channels |-> 3, memory |-> FALSE],
    [size |-> AGX_SIZE_32, channels |-> 1, memory |-> TRUE] }

DemandIdx(v, sh, kill) == Idx("normal", v, sh.size, sh.channels, kill, sh.memory)

\* the first loop of agx_calc_register_demand, for one destination
\* (variant: the width of a value is kept as it is, not rounded up)
DemandGather_Unrounded(cx, idx) ==
  IF idx.type # "normal" \/ cx.abort # "" THEN cx
  ELSE IF cx.widths[idx.value] # 0 THEN [cx EXCEPT !.abort = "broken SSA"]
  ELSE
  [cx EXCEPT !.widths[idx.value] = agx_index_size_16(idx),
             !.classes[idx.value] = ra_class_for_index(idx),
             !.shape[idx.value] = [size |-> idx.size, channels |-> idx.channels,
                                   memory |-> idx.memory],
             !.defined = @ \cup {idx.value}]

DemandGather(cx, idx) ==
  IF idx.type # "normal" \/ cx.abort # "" THEN cx
  ELSE IF cx.widths[idx.value] # 0 THEN [cx EXCEPT !.abort = "broken SSA"]
  ELSE
  [cx EXCEPT !.widths[idx.value] = util_next_power_of_two(agx_index_size_16(idx)),
             !.classes[idx.value] = ra_class_for_index(idx),
             !.shape[idx.value] = [size |-> idx.size, channels |-> idx.channels,
                                   memory |-> idx.memory],
             !.defined = @ \cup {idx.value}]

RECURSIVE DemandGatherAll(_, _, _)
DemandGatherAll(cx, dests, d) ==
  IF d > Len(dests) THEN cx
  ELSE DemandGatherAll(DemandGather(cx, dests[d]), dests, d + 1)

\* the registers the values of L need at one program point: each
\* general-purpose value its width rounded up to a power of two, plus the
\* nesting counter
LiveDemand(cx, L) ==
  (IF cx.any_cf THEN 1 ELSE 0)
    + SumOver({v \in L : ~cx.shape[v].memory},
              [v \in Values |->
                 util_next_power_of_two(
                   agx_size_align_16(cx.shape[v].size) * cx.shape[v].channels)])

DemandInit ==
  /\ \E any_cf \in BOOLEAN :
       ctx = [prog |-> << >>, any_cf |-> any_cf,
              widths |-> [v \in Values |-> 0],
              classes |-> [v \in Values |-> "RA_GPR"],
              shape |-> [v \in Values |->
                           [size |-> AGX_SIZE_16, channels |-> 1, memory |-> FALSE]],
              defined |-> {}, abort |-> "",
              nblocks |-> 0, phis |-> << >>, peak |-> 0]
  /\ rctx = EmptyCtx(FALSE)
  /\ block = [preds |-> << >>, live_in |-> {}, loop_header |-> FALSE,
              ssa_to_reg_out |-> [v \in Values |-> 0]]
  /\ instr = NoInstr
  /\ live = {}
  /\ regfile = [r \in 0 .. (max_regs - 1) |-> NoVal]
  /\ misread = {}
  /\ est = EmptyEst
  /\ steps = 0
  /\ pc = "demand"

\* the estimator reaches the next block: some values defined before are
\* live into it, and it may start with a phi, whose destination is live-in
DemandBlock ==
  /\ pc = "demand"
  /\ ctx.nblocks < MaxDemandBlocks
  /\ ctx.phis = << >>
  /\ \E live_in \in SUBSET ctx.defined :
     \E phi \in {<< >>} \cup
                {<< sh >> : sh \in {x \in DemandShapes :
                                      Cardinality(ctx.defined) < MaxDemandValues}} :
       LET v == Cardinality(ctx.defined)
           P == IF phi = << >> THEN << >>
                ELSE << [op |-> "PHI", src |-> << >>,
                         dest |-> << DemandIdx(v, phi[1], FALSE) >>] >>
           cx == IF phi = << >> THEN ctx ELSE DemandGather(ctx, P[1].dest[1])
           L == live_in \cup (IF phi = << >> THEN {} ELSE {v})
           e == demand_block(est, ctx.any_cf, L, cx.widths, cx.classes)
       IN /\ est' = e
          /\ live' = L
          /\ block' = [block EXCEPT !.live_in = L]
          /\ ctx' = [cx EXCEPT !.nblocks = @ + 1, !.phis = P,
                               !.peak = MAX2(@, LiveDemand(cx, L))]
          /\ steps' = 0
          /\ instr' = NoInstr
  /\ UNCHANGED << rctx, regfile, misread, pc >>

\* the loop body for the phi at the top of the block
DemandPhi ==
  /\ pc = "demand"
  /\ ctx.phis # << >>
  /\ est' = demand_instr(est, ctx.phis[1], ctx.widths)
  /\ instr' = ctx.phis[1]
  /\ ctx' = [ctx EXCEPT !.phis = << >>]
  /\ UNCHANGED << rctx, block, live, regfile, misread, steps, pc >>

\* the loop body for an instruction: its sources are live values, one value
\* may fill several slots; the values of K have their last use here, and the
\* kill flag is on their first slot (or on every slot, when every is TRUE)
DemandInstr ==
  /\ pc = "demand"
  /\ ctx.nblocks >= 1
  /\ ctx.phis = << >>
  /\ steps < MaxDemandInstrs
  /\ steps' = steps + 1
  /\ \E n \in 0 .. MaxSrcs : \E srcs \in [1 .. n -> live] :
     \E K \in SUBSET {srcs[s] : s \in 1 .. n} :
     \E every \in IF \E s \in 1 .. n : \E t \in 1 .. (s - 1) :
                       srcs[s] = srcs[t] /\ srcs[s] \in K
                    THEN BOOLEAN ELSE {FALSE} :
     \E nd \in 0 .. 1 : \E shs \in [1 .. nd -> DemandShapes] :
       LET v == Cardinality(ctx.defined)
           I == [op |-> "ALU",
                 src |-> [s \in 1 .. n |->
                            DemandIdx(srcs[s], ctx.shape[srcs[s]],
                                      /\ srcs[s] \in K
                                      /\ \/ every
                                         \/ ~\E t \in 1 .. (s - 1) : srcs[t] = srcs[s])],
                 dest |-> [d \in 1 .. nd |-> DemandIdx(v + d - 1, shs[d], FALSE)]]
           cx == DemandGatherAll(ctx, I.dest, 1)
           L == (live \ K) \cup {v + d - 1 : d \in 1 .. nd}
       IN /\ v + nd <= MaxDemandValues
          /\ n + nd >= 1
          /\ est' = demand_instr(est, I, cx.widths)
          /\ instr' = I
          /\ live' = L
          /\ ctx' = [cx EXCEPT !.peak = MAX2(@, LiveDemand(cx, L))]
  /\ UNCHANGED << rctx, block, regfile, misread, pc >>

NextDemand == DemandBlock \/ DemandPhi \/ DemandInstr

SpecDemand == DemandInit /\ [][NextDemand]_vars

\* C4: what agx_calc_register_demand has computed once it has walked a
\* program is the maximum, over the blocks and the points between their
\* instructions, of the rounded widths of the general-purpose values live
\* there, plus one for the nesting counter under control flow; values of
\* the memory class add nothing.
C4_DemandIsPeak ==
  pc = "demand" =>
    /\ est.abort = ""
    /\ est.max_demand = ctx.peak
    /\ ctx.nblocks >= 1 => est.demand = LiveDemand(ctx, live)

\* a second block was walked; a value with a last use in two slots of one
\* instruction and a memory value were live, and the peak lies behind
C4_Witness ==
  /\ pc = "demand"
  /\ ctx.nblocks = 2
  /\ \E s \in 1 .. Len(instr.src) : \E t \in 1 .. (s - 1) :
       instr.src[s].value = instr.src[t].value /\ instr.src[s].kill
  /\ \E v \in live : ctx.shape[v].memory
  /\ \E v \in live : ~ctx.shape[v].memory
  /\ est.max_demand > est.demand
  /\ est.demand > 0

(***************************************************************************)
(* agx_ra over a program of one block: demand, the decision to spill,      *)
(* agx_spill_everything, the bound of the file, the allocation             *)
(***************************************************************************)
MaxRaValues == 4
\* AGX_NUM_MODELED_REGS as far as the model needs it
MaxMemRegs == 64
\* AGX_NUM_REGS, the file of a program that is not the helper program; no
\* program of the model wants as much
AGX_NUM_REGS == 256
\* the file of the helper program
HelperRegs == 32

RaShapes ==
  { [size |-> AGX_SIZE_16, channels |-> 1, memory |-> FALSE],
    [size |-> AGX_SIZE_32, channels |-> 4, memory |-> FALSE] }

\* the members of a set of slots, in ascending order
RECURSIVE SortedSeq(_)
SortedSeq(S) ==
  IF S = {} THEN << >> ELSE LET m == Min(S) IN << m >> \o SortedSeq(S \ {m})

\* agx_compute_liveness for a program of one block that nothing lives out
\* of: the kill flag is on the last use of a value, in the first slot of
\* the instruction that names it
agx_compute_liveness(prog) ==
  [i \in 1 .. Len(prog) |->
     [prog[i] EXCEPT !.src =
        [s \in 1 .. Len(prog[i].src) |->
           IF prog[i].src[s].type # "normal" THEN prog[i].src[s]
           ELSE [prog[i].src[s] EXCEPT !.kill =
                   /\ ~\E j \in (i + 1) .. Len(prog) : \E t \in SsaSrcs(prog[j]) :
                         prog[j].src[t].value = prog[i].src[s].value
                   /\ ~\E t \in 1 .. (s - 1) :
                         /\ prog[i].src[t].type = "normal"
                         /\ prog[i].src[t].value = prog[i].src[s].value]]]]

\* the arrays the first loop of agx_calc_register_demand fills
EmptyWidths(ids) ==
  [widths |-> [v \in ids |-> 0],
   classes |-> [v \in ids |-> "RA_GPR"],
   shape |-> [v \in ids |-> [size |-> AGX_SIZE_16, channels |-> 1, memory |-> FALSE]],
   defined |-> {}, abort |-> ""]

RECURSIVE ProgGather(_, _, _)
ProgGather(cx, prog, i) ==
  IF i > Len(prog) THEN cx
  ELSE ProgGather(DemandGatherAll(cx, prog[i].dest, 1), prog, i + 1)

RECURSIVE DemandWalk(_, _, _, _)
DemandWalk(e, prog, i, widths) ==
  IF i > Len(prog) THEN e
  ELSE DemandWalk(demand_instr(e, prog[i], widths), prog, i + 1, widths)

\* the assertion of the first loop of agx_calc_register_demand that fails
\* for the program, "" if none does
demand_asserts(prog, alloc) ==
  ProgGather(EmptyWidths(0 .. (alloc - 1)), prog, 1).abort

\* agx_calc_register_demand for the block prog of a program with alloc ids
agx_calc_register_demand(any_cf, prog, alloc) ==
  LET cx == ProgGather(EmptyWidths(0 .. (alloc - 1)), prog, 1)
      e0 == demand_block(EmptyEst, any_cf, {}, cx.widths, cx.classes)
  IN DemandWalk(e0, prog, 1, cx.widths).max_demand

agx_index_as_mem(idx, mem_base) ==
  [idx EXCEPT !.memory = TRUE, !.value = mem_base + idx.value]

\* a stack move or fill: agx_mov_to
Mov(dest, src) == [op |-> "MOV", src |-> << src >>, dest |-> << dest >>]

\* (variant: the fills are made but the instruction keeps its sources)
SpillInstr_KeepSources(st, I, mem_base) ==
  IF I.op = "PHI" THEN
    [st EXCEPT !.prog = Append(@,
       [I EXCEPT
          !.dest = [d \in 1 .. Len(I.dest) |->
                      IF I.dest[d].type = "normal"
                        THEN agx_index_as_mem(I.dest[d], mem_base) ELSE I.dest[d]],
          !.src = [t \in 1 .. Len(I.src) |->
                     IF I.src[t].type = "normal"
                       THEN agx_index_as_mem(I.src[t], mem_base) ELSE I.src[t]]])]
  ELSE
    LET slots == SortedSeq(SsaSrcs(I))
        fills == [k \in 1 .. Len(slots) |->
                    Mov(Idx("normal", st.alloc + k - 1, I.src[slots[k]].size,
                            I.src[slots[k]].channels, FALSE, FALSE),
                        agx_index_as_mem(I.src[slots[k]], mem_base))]
        dests == Reverse(SortedSeq(SsaDests(I)))
        stores == [k \in 1 .. Len(dests) |->
                     Mov(agx_index_as_mem(I.dest[dests[k]], mem_base),
                         I.dest[dests[k]])]
    IN [prog |-> st.prog \o fills \o << I >> \o stores,
        alloc |-> st.alloc + Len(slots)]

\* the body of the second loop of agx_spill_everything for instruction I;
\* st is [prog, alloc]: the instructions emitted so far, the next fresh id
SpillInstr(st, I, mem_base) ==
  IF I.op = "PHI" THEN
    [st EXCEPT !.prog = Append(@,
       [I EXCEPT
          !.dest = [d \in 1 .. Len(I.dest) |->
                      IF I.dest[d].type = "normal"
                        THEN agx_index_as_mem(I.dest[d], mem_base) ELSE I.dest[d]],
          !.src = [t \in 1 .. Len(I.src) |->
                     IF I.src[t].type = "normal"
                       THEN agx_index_as_mem(I.src[t], mem_base) ELSE I.src[t]]])]
  ELSE
    LET slots == SortedSeq(SsaSrcs(I))
        fill == [k \in 1 .. Len(slots) |->
                   Idx("normal", st.alloc + k - 1, I.src[slots[k]].size,
                       I.src[slots[k]].channels, FALSE, FALSE)]
        fills == [k \in 1 .. Len(slots) |->
                    Mov(fill[k], agx_index_as_mem(I.src[slots[k]], mem_base))]
        I2 == [I EXCEPT !.src =
                 [t \in 1 .. Len(I.src) |->
                    IF t \in SsaSrcs(I)
                      THEN fill[CHOOSE k \in 1 .. Len(slots) : slots[k] = t]
                      ELSE I.src[t]]]
        \* each store goes right after I: the last destination's comes first
        dests == Reverse(SortedSeq(SsaDests(I)))
        stores == [k \in 1 .. Len(dests) |->
                     Mov(agx_index_as_mem(I.dest[dests[k]], mem_base),
                         I.dest[dests[k]])]
    IN [prog |-> st.prog \o fills \o << I2 >> \o stores,
        alloc |-> st.alloc + Len(slots)]

RECURSIVE SpillLoop(_, _, _, _)
SpillLoop(st, prog, i, mem_base) ==
  IF i > Len(prog) THEN st
  ELSE SpillLoop(SpillInstr(st, prog[i], mem_base), prog, i + 1, mem_base)

\* agx_spill_everything: [prog, alloc] after it
agx_spill_everything(prog, alloc) ==
  SpillLoop([prog |-> << >>, alloc |-> alloc + alloc], prog, 1, alloc)

\* spilling with the comparison of the demand made inclusive
spilling_of_AtTheLimit(demand, max_possible_regs, dbg_spill, has_scratch) ==
  (demand >= max_possible_regs) \/ (dbg_spill /\ has_scratch)

\* spilling with the debug flag taken whatever the key says of scratch
spilling_of_Override(demand, max_possible_regs, dbg_spill, has_scratch) ==
  (demand > max_possible_regs) \/ dbg_spill

\* spilling, as agx_ra decides it
spilling_of(demand, max_possible_regs, dbg_spill, has_scratch) ==
  (demand > max_possible_regs) \/ (dbg_spill /\ has_scratch)

\* the spill step without the assertion on the demand found afterwards
spill_step_Unchecked(cx) ==
  IF ~cx.has_scratch
    THEN [cx EXCEPT !.abort = "internal shaders are unspillable"]
  ELSE
    LET st == agx_spill_everything(cx.prog, cx.alloc)
        prog == agx_compute_liveness(st.prog)
    IN [cx EXCEPT !.prog = prog, !.alloc = st.alloc, !.spilled = TRUE,
                  !.effective_demand =
                     agx_calc_register_demand(cx.any_cf, prog, st.alloc)]

\* the spill step of agx_ra, for a context that is spilling
spill_step(cx) ==
  IF ~cx.has_scratch
    THEN [cx EXCEPT !.abort = "internal shaders are unspillable"]
  ELSE
    LET st == agx_spill_everything(cx.prog, cx.alloc)
        prog == agx_compute_liveness(st.prog)
        demand == agx_calc_register_demand(cx.any_cf, prog, st.alloc)
        cx1 == [cx EXCEPT !.prog = prog, !.alloc = st.alloc, !.spilled = TRUE,
                          !.effective_demand = demand]
    IN IF ~(demand <= cx.max_possible_regs)
         THEN [cx1 EXCEPT !.abort = "spiller post-condition"]
         ELSE cx1

\* the first loop of agx_ra: collects and phis recorded for their sources,
\* ncomps, sizes and classes gathered
RECURSIVE GatherProgram(_, _, _)
GatherProgram(c, prog, i) ==
  IF i > Len(prog) THEN c
  ELSE
    LET I == prog[i]
        c1 == IF I.op \in {"COLLECT", "PHI"}
                THEN [c EXCEPT !.src_to_collect_phi =
                        [v \in DOMAIN @ |->
                           IF \E t \in SsaSrcs(I) : I.src[t].value = v
                             THEN I ELSE @[v]]]
                ELSE c
    IN GatherProgram(GatherAll(c1, I.dest, 1), prog, i + 1)

\* max_ncomps as the first loop of agx_ra leaves it
MaxNcomps(c) ==
  CHOOSE m \in {1} \cup {c.ncomps[v] : v \in DOMAIN c.ncomps} :
    \A v \in DOMAIN c.ncomps : c.ncomps[v] <= m

\* a parallel copy emitted in front of an instruction, as an instruction
PCopy(copies) ==
  [op |-> "PCOPY",
   src |-> [k \in 1 .. Len(copies) |->
              Idx("register", copies[k].src, copies[k].size, 1, FALSE, FALSE)],
   dest |-> [k \in 1 .. Len(copies) |->
               Idx("register", copies[k].dest, copies[k].size, 1, FALSE, FALSE)]]

\* the instruction loop of agx_ra_assign_local: [c, out, instrs, locs], out
\* the block as rewritten so far, the copies of find_regs in front of their
\* instruction; instrs the rewritten instructions alone and locs ssa_to_reg
\* as it stood after each
NoneYet == [out |-> << >>, instrs |-> << >>, locs |-> << >>]

RECURSIVE AssignLoop(_, _, _, _)
AssignLoop(c_in, prog, i, acc) ==
  IF i > Len(prog) \/ c_in.abort # ""
    THEN [c |-> c_in, out |-> acc.out, instrs |-> acc.instrs, locs |-> acc.locs]
  ELSE
    Eval({ AssignLoop(c1, prog, i + 1,
                      IF c1.abort # "" THEN acc
                      ELSE [out |-> acc.out
                                      \o [k \in 1 .. Len(c1.pcopies) |->
                                            PCopy(c1.pcopies[k])]
                                      \o << c1.I >>,
                            instrs |-> Append(acc.instrs, c1.I),
                            locs |-> Append(acc.locs, c1.ssa_to_reg)]) :
           c1 \in { ra_instr(c_in, prog[i]) } })

\* the bound of the file and the allocation of the block, for a context
\* that passed the spill step: [cx, c], c the allocation context at the end
ROUND_DOWN_TO(x, a) == (x \div a) * a

\* assert(ctx->max_reg <= max_regs) after the block loop
assign_end(cx, bound, r) ==
  IF r.c.abort # "" THEN [cx |-> [cx EXCEPT !.abort = r.c.abort], c |-> r.c]
  ELSE IF ~(r.c.max_reg["RA_GPR"] <= bound)
    THEN [cx |-> [cx EXCEPT !.abort = "ctx->max_reg <= max_regs"], c |-> r.c]
  ELSE [cx |-> [cx EXCEPT !.out = r.out, !.max_regs = bound], c |-> r.c]

\* the assertions on max_regs, then the block loop
assign_bounded(cx, g, alignment, demand, bound) ==
  IF ~(demand <= cx.max_possible_regs)
    THEN [cx |-> [cx EXCEPT !.abort = "Invariant"], c |-> g]
  ELSE IF bound % alignment # 0
    THEN [cx |-> [cx EXCEPT !.abort = "occupancy limits aligned"], c |-> g]
  ELSE IF ~(bound >= 6 * 2)
    THEN [cx |-> [cx EXCEPT !.abort = "space for vertex shader preloading"], c |-> g]
  ELSE IF ~(bound <= cx.max_possible_regs)
    THEN [cx |-> [cx EXCEPT !.abort = "max_regs <= max_possible_regs"], c |-> g]
  ELSE
    Eval({ assign_end(cx, bound, r) :
           r \in { AssignLoop(
                     BlockStart([g EXCEPT !.bound["RA_GPR"] = bound,
                                          !.reg_to_ssa = [x \in 0 .. (bound - 1) |-> 0]],
                                [preds |-> << >>, live_in |-> {},
                                 loop_header |-> FALSE]),
                     cx.prog, 1, NoneYet) } })

\* demand rounded up to reg_file_alignment; max_regs: the file is bounded
\* tightly (AGX_DBG_DEMAND) unless the helper program fixes it
assign_demand(cx, g, alignment, eff) ==
  Eval({ assign_bounded(cx, g, alignment, demand,
                        IF cx.dbg_demand
                          THEN ALIGN_POT(MAX2(demand, 12), alignment)
                          ELSE ROUND_DOWN_TO(HelperRegs, alignment)) :
         demand \in { ALIGN_POT(eff, alignment) } })

assign_gathered(cx, g, alignment) ==
  IF g.abort # "" THEN [cx |-> [cx EXCEPT !.abort = g.abort], c |-> g]
  ELSE assign_demand(cx, g, alignment,
                     IF cx.spilling
                       THEN MAX2(cx.effective_demand, 6 * 2) + alignment
                       ELSE cx.effective_demand)

assign_step(cx) ==
  Eval({ assign_gathered(cx, g, MAX2(MaxNcomps(g), 8)) :
         g \in { GatherProgram(NewCtx(cx.any_cf, 0 .. (cx.alloc - 1), 0, MaxMemRegs),
                               cx.prog, 1) } })

RaInit ==
  /\ ctx = [prog |-> << >>, alloc |-> 0, shapes |-> << >>, unused |-> {},
            input |-> << >>,
            any_cf |-> FALSE, has_scratch |-> FALSE, is_helper |-> FALSE,
            dbg_spill |-> FALSE, dbg_demand |-> FALSE,
            max_possible_regs |-> 0, demand |-> 0, effective_demand |-> 0,
            spilling |-> FALSE, spilled |-> FALSE, abort |-> "",
            out |-> << >>, max_regs |-> 0, redefined |-> FALSE]
  /\ rctx = EmptyCtx(FALSE)
  /\ block = [preds |-> << >>, live_in |-> {}, loop_header |-> FALSE,
              ssa_to_reg_out |-> [v \in Values |-> 0]]
  /\ instr = NoInstr
  /\ live = {}
  /\ regfile = [r \in 0 .. (max_regs - 1) |-> NoVal]
  /\ misread = {}
  /\ est = EmptyEst
  /\ steps = 0
  /\ pc = "build"

\* the program under compilation gets an instruction that defines a value
RaDef ==
  /\ pc = "build"
  /\ ~ctx.redefined
  /\ ctx.alloc < MaxRaValues
  /\ \E sh \in RaShapes :
       ctx' = [ctx EXCEPT
                 !.prog = Append(@, [op |-> "ALU", src |-> << >>,
                                     dest |-> << DemandIdx(ctx.alloc, sh, FALSE) >>]),
                 !.shapes = Append(@, sh),
                 !.unused = @ \cup {ctx.alloc},
                 !.alloc = @ + 1]
  /\ UNCHANGED << rctx, block, instr, live, regfile, misread, est, steps, pc >>

\* ... or, last, one that defines again a value defined before: the program
\* is not in SSA form
RaRedef ==
  /\ pc = "build"
  /\ ~ctx.redefined
  /\ \E v \in 0 .. (ctx.alloc - 1) : \E sh \in RaShapes :
       ctx' = [ctx EXCEPT
                 !.prog = Append(@, [op |-> "ALU", src |-> << >>,
                                     dest |-> << DemandIdx(v, sh, FALSE) >>]),
                 !.redefined = TRUE]
  /\ UNCHANGED << rctx, block, instr, live, regfile, misread, est, steps, pc >>

\* ... or one that reads the n oldest values not read yet
RaUse ==
  /\ pc = "build"
  /\ ~ctx.redefined
  /\ \E n \in 1 .. Cardinality(ctx.unused) :
       LET vs == SubSeq(SortedSeq(ctx.unused), 1, n) IN
       ctx' = [ctx EXCEPT
                 !.prog = Append(@, [op |-> "ALU",
                                     src |-> [k \in 1 .. n |->
                                                DemandIdx(vs[k], ctx.shapes[vs[k] + 1],
                                                          FALSE)],
                                     dest |-> << >>]),
                 !.unused = @ \ {vs[k] : k \in 1 .. n}]
  /\ UNCHANGED << rctx, block, instr, live, regfile, misread, est, steps, pc >>

\* agx_ra up to the decision to spill, for a program without dead values
RaDemand ==
  /\ pc = "build"
  /\ ctx.prog # << >>
  /\ ctx.unused = {}
  /\ \E any_cf \in BOOLEAN : \E has_scratch \in BOOLEAN : \E is_helper \in BOOLEAN :
     \E dbg_spill \in BOOLEAN : \E dbg_demand \in BOOLEAN :
       LET max_possible_regs == IF is_helper THEN HelperRegs ELSE AGX_NUM_REGS
           prog == agx_compute_liveness(ctx.prog)
           demand == agx_calc_register_demand(any_cf, prog, ctx.alloc)
       IN /\ is_helper \/ dbg_demand
          /\ demand_asserts(prog, ctx.alloc) = ""
          /\ ctx' = [ctx EXCEPT
                       !.prog = prog, !.input = prog,
                       !.any_cf = any_cf, !.has_scratch = has_scratch,
                       !.is_helper = is_helper, !.dbg_spill = dbg_spill,
                       !.dbg_demand = dbg_demand,
                       !.max_possible_regs = max_possible_regs,
                       !.demand = demand, !.effective_demand = demand,
                       !.spilling = spilling_of(demand, max_possible_regs,
                                                dbg_spill, has_scratch)]
  /\ pc' = "decided"
  /\ UNCHANGED << rctx, block, instr, live, regfile, misread, est, steps >>

\* agx_ra given a program that the first loop of agx_calc_register_demand
\* rejects
RaBroken ==
  /\ pc = "build"
  /\ demand_asserts(ctx.prog, ctx.alloc) # ""
  /\ ctx' = [ctx EXCEPT !.input = ctx.prog,
                        !.abort = demand_asserts(ctx.prog, ctx.alloc)]
  /\ pc' = "abort"
  /\ UNCHANGED << rctx, block, instr, live, regfile, misread, est, steps >>

\* if (spilling) { ... }
RaSpill ==
  /\ pc = "decided"
  /\ ctx.spilling
  /\ \E cx \in { spill_step(ctx) } :
       /\ ctx' = cx
       /\ pc' = IF cx.abort # "" THEN "abort" ELSE "spilled"
  /\ UNCHANGED << rctx, block, instr, live, regfile, misread, est, steps >>

\* the rest of agx_ra up to the end of the allocation of the block
RaAssign ==
  /\ \/ pc = "spilled"
     \/ pc = "decided" /\ ~ctx.spilling
  /\ \E r \in { assign_step(ctx) } :
       /\ ctx' = r.cx
       /\ rctx' = r.c
       /\ pc' = IF r.cx.abort # "" THEN "abort" ELSE "done"
  /\ UNCHANGED << block, instr, live, regfile, misread, est, steps >>

NextRA == RaDef \/ RaRedef \/ RaUse \/ RaDemand \/ RaBroken \/ RaSpill \/ RaAssign

SpecRA == RaInit /\ [][NextRA]_vars

(***************************************************************************)
(* Properties of the decision to spill                                     *)
(***************************************************************************)
\* agx_ra is past the decision
Decided == pc \in {"decided", "spilled", "done", "abort"}

\* agx_ra is past the spill step, or past the place it would have had
PastSpill == pc \in {"spilled", "done", "abort"}

HasMemOperand(I) ==
  \/ \E s \in DOMAIN I.src : I.src[s].type # "null" /\ I.src[s].memory
  \/ \E d \in DOMAIN I.dest : I.dest[d].type # "null" /\ I.dest[d].memory

NoMemOperand(prog) == \A i \in DOMAIN prog : ~HasMemOperand(prog[i])

\* the debug flag forces the program through the spiller
SpillForced == ctx.dbg_spill /\ ctx.has_scratch

\* C6 as stated: if the demand computed by agx_calc_register_demand is at
\* most max_possible_regs, agx_ra does not run agx_spill_everything and
\* the allocated program has no operand of the memory class.
C6_NoSpillWithinFile ==
  (Decided /\ ctx.demand <= ctx.max_possible_regs) =>
    /\ ~ctx.spilled
    /\ ctx.prog = ctx.input
    /\ NoMemOperand(ctx.out)

\* C6: if the demand computed by agx_calc_register_demand is at most
\* max_possible_regs and AGX_DBG_SPILL does not force a program with
\* scratch through the spiller, agx_ra does not run agx_spill_everything
\* and the allocated program has no operand of the memory class.
C6_NoSpillWithinFileUnforced ==
  (Decided /\ ctx.demand <= ctx.max_possible_regs /\ ~SpillForced) =>
    /\ ~ctx.spilled
    /\ ctx.prog = ctx.input
    /\ NoMemOperand(ctx.out)

\* a program that fills the file of the helper program exactly was
\* allocated, unspilled, with the debug flag set and no scratch
C6_Witness ==
  /\ pc = "done"
  /\ ctx.demand = ctx.max_possible_regs
  /\ ctx.dbg_spill /\ ~ctx.has_scratch
  /\ ~ctx.spilled
  /\ Len(ctx.out) = Len(ctx.input)
  /\ \E i \in DOMAIN ctx.out : ctx.out[i].src # << >>

\* nothing of the allocation has happened
NothingAssigned ==
  /\ ctx.out = << >>
  /\ rctx.max_reg["RA_GPR"] = 0
  /\ \A v \in DOMAIN rctx.ssa_to_reg : rctx.ssa_to_reg[v] = 0
  /\ rctx.used_regs["RA_GPR"] = {}

\* C7: when agx_ra has spilled because the demand exceeded the file, the
\* demand of the spilled program, its liveness recomputed, is at most
\* max_possible_regs, or else the compilation has aborted on the
\* assertion "spiller post-condition" with no register assigned.
C7_SpillerPostCondition ==
  (ctx.spilled /\ ctx.demand > ctx.max_possible_regs) =>
    \/ /\ agx_calc_register_demand(ctx.any_cf, agx_compute_liveness(ctx.prog),
                                   ctx.alloc) <= ctx.max_possible_regs
       /\ ctx.abort # "spiller post-condition"
    \/ /\ pc = "abort"
       /\ ctx.abort = "spiller post-condition"
       /\ NothingAssigned

\* the spilled program still wanted more than the file: the abort
C7_Witness ==
  /\ pc = "abort"
  /\ ctx.spilled
  /\ ctx.demand > ctx.max_possible_regs
  /\ ctx.abort = "spiller post-condition"
  /\ ctx.effective_demand > ctx.max_possible_regs
  /\ ~NoMemOperand(ctx.prog)

\* ... and the other outcome: the spilled program fits and is allocated
C7_SpilledAndAllocated ==
  /\ pc = "done"
  /\ ctx.spilled
  /\ ctx.demand > ctx.max_possible_regs
  /\ ~NoMemOperand(ctx.out)

\* C8: agx_spill_everything runs only for a program with scratch; a
\* program without scratch whose demand exceeds the file aborts on
\* "internal shaders are unspillable" untransformed; AGX_DBG_SPILL never
\* makes a program without scratch spill.
C8_OnlyWithScratch ==
  /\ ctx.spilled => ctx.has_scratch
  /\ ~ctx.has_scratch => ctx.prog = ctx.input \/ pc = "build"
  /\ (PastSpill /\ ctx.demand > ctx.max_possible_regs /\ ~ctx.has_scratch) =>
       /\ pc = "abort"
       /\ ctx.abort = "internal shaders are unspillable"
       /\ NothingAssigned
  /\ (Decided /\ ctx.dbg_spill /\ ~ctx.has_scratch
        /\ ctx.demand <= ctx.max_possible_regs) =>
       /\ ~ctx.spilling
       /\ ctx.abort # "internal shaders are unspillable"

\* a program without scratch wanted more than the file, under the debug
\* flag: the abort
C8_Witness ==
  /\ pc = "abort"
  /\ ctx.abort = "internal shaders are unspillable"
  /\ ~ctx.has_scratch
  /\ ctx.dbg_spill
  /\ ctx.demand > ctx.max_possible_regs
  /\ ctx.prog = ctx.input

(***************************************************************************)
(* agx_ra at a join: blocks A and P, allocated, and their successor B      *)
(***************************************************************************)
MaxCfgValues == 2
\* the values live at the end of A and P sit below this register
MaxSeedReg == 6

CfgShapes ==
  { [size |-> AGX_SIZE_16, channels |-> 1],
    [size |-> AGX_SIZE_32, channels |-> 1] }

\* the ids of the program: the values defined above B, the destination of
\* B's own phi, the destination of B's collect
CfgIds == 0 .. (MaxCfgValues + 1)
PhiValue == MaxCfgValues
CollectValue == MaxCfgValues + 1

NoRegs == [v \in CfgIds |-> 0]

\* (variant: only the first predecessor sets the sources taken from it)
PhiFixup_FirstPred(prog, pred_idx, ssa_to_reg) ==
  [i \in DOMAIN prog |->
     IF prog[i].op = "PHI" /\ pred_idx = 1 /\ prog[i].src[pred_idx].type = "normal"
       THEN [prog[i] EXCEPT !.src[pred_idx] =
               agx_register_like(ssa_to_reg[@.value], @)]
       ELSE prog[i]]

\* the sources of a phi of a successor, set at the end of its predecessor
\* pred_idx from the map the predecessor ends with
PhiFixup(prog, pred_idx, ssa_to_reg) ==
  [i \in DOMAIN prog |->
     IF prog[i].op = "PHI" /\ prog[i].src[pred_idx].type = "normal"
       THEN [prog[i] EXCEPT !.src[pred_idx] =
               agx_register_like(ssa_to_reg[@.value], @)]
       ELSE prog[i]]

\* a copy of a parallel copy that moves something
IsMove(cp) ==
  ~(cp.src.type = "register" /\ cp.src.value = cp.dest /\ cp.src.memory = cp.dest_mem)

\* agx_emit_parallel_copies: one parallel copy of the entries that move
\* something, nothing if none does
agx_emit_parallel_copies(copies) ==
  LET real == SelectSeq(copies, IsMove) IN
  IF real = << >> THEN << >>
  ELSE << [op |-> "PCOPY",
           src |-> [k \in 1 .. Len(real) |-> real[k].src],
           dest |-> [k \in 1 .. Len(real) |->
                       Idx("register", real[k].dest, real[k].src.size, 1, FALSE,
                           real[k].dest_mem)]] >>

IsPhi(I) == I.op = "PHI"

\* (variant: every copy takes the operand of the first predecessor)
agx_insert_parallel_copies_FirstSlot(prog, pred_index) ==
  LET phis == SelectSeq(prog, IsPhi)
      copies == [k \in 1 .. Len(phis) |->
                   [dest |-> phis[k].dest[1].value,
                    dest_mem |-> phis[k].dest[1].memory,
                    src |-> IF phis[k].src[1].type = "immediate"
                              THEN [phis[k].src[1] EXCEPT
                                      !.size = phis[k].dest[1].size]
                              ELSE phis[k].src[1]]]
  IN [abort |-> "", copies |-> copies,
      emitted |-> IF phis = << >> THEN << >> ELSE agx_emit_parallel_copies(copies)]

\* agx_insert_parallel_copies for the predecessor pred_index of a block
\* whose instructions are prog: [abort, copies, emitted]
agx_insert_parallel_copies(prog, pred_index) ==
  LET phis == SelectSeq(prog, IsPhi)
      copies == [k \in 1 .. Len(phis) |->
                   [dest |-> phis[k].dest[1].value,
                    dest_mem |-> phis[k].dest[1].memory,
                    src |-> IF phis[k].src[pred_index].type = "immediate"
                              THEN [phis[k].src[pred_index] EXCEPT
                                      !.size = phis[k].dest[1].size]
                              ELSE phis[k].src[pred_index]]]
  IN
  IF \E k \in 1 .. Len(phis) : phis[k].dest[1].type # "register"
    THEN [abort |-> "dest.type == AGX_INDEX_REGISTER", copies |-> << >>,
          emitted |-> << >>]
  ELSE IF \E k \in 1 .. Len(phis) : phis[k].dest[1].size # copies[k].src.size
    THEN [abort |-> "dest.size == src.size", copies |-> << >>, emitted |-> << >>]
  ELSE [abort |-> "", copies |-> copies,
        emitted |-> IF phis = << >> THEN << >> ELSE agx_emit_parallel_copies(copies)]

\* (variant: the sources of a COLLECT are written one after the other, a
\* null source leaving no gap)
LowerPseudo_Packed(ins) ==
  IF ins.op = "COLLECT" THEN
    LET width == agx_size_align_16(ins.src[1].size)
        slots == SortedSeq({i \in 1 .. Len(ins.src) : ins.src[i].type # "null"})
    IN agx_emit_parallel_copies(
         [k \in 1 .. Len(slots) |->
            [dest |-> ins.dest[1].value + (k - 1) * width,
             dest_mem |-> FALSE,
             src |-> ins.src[slots[k]]]])
  ELSE IF ins.op = "SPLIT" THEN
    LET width == agx_size_align_16(agx_split_width(ins))
        slots == SortedSeq({i \in 1 .. Len(ins.dest) : ins.dest[i].type = "register"})
    IN agx_emit_parallel_copies(
         [k \in 1 .. Len(slots) |->
            [dest |-> ins.dest[slots[k]].value,
             dest_mem |-> FALSE,
             src |-> [ins.src[1] EXCEPT !.size = ins.dest[slots[k]].size,
                                        !.channels = 1,
                                        !.value = @ + (slots[k] - 1) * width]]])
  ELSE << ins >>

\* "lower away RA pseudo-instructions": what stands in the place of ins
LowerPseudo(ins) ==
  IF ins.op = "COLLECT" THEN
    LET width == agx_size_align_16(ins.src[1].size)
        slots == SortedSeq({i \in 1 .. Len(ins.src) : ins.src[i].type # "null"})
    IN agx_emit_parallel_copies(
         [k \in 1 .. Len(slots) |->
            [dest |-> ins.dest[1].value + (slots[k] - 1) * width,
             dest_mem |-> FALSE,
             src |-> ins.src[slots[k]]]])
  ELSE IF ins.op = "SPLIT" THEN
    LET width == agx_size_align_16(agx_split_width(ins))
        slots == SortedSeq({i \in 1 .. Len(ins.dest) : ins.dest[i].type = "register"})
    IN agx_emit_parallel_copies(
         [k \in 1 .. Len(slots) |->
            [dest |-> ins.dest[slots[k]].value,
             dest_mem |-> FALSE,
             src |-> [ins.src[1] EXCEPT !.size = ins.dest[slots[k]].size,
                                        !.channels = 1,
                                        !.value = @ + (slots[k] - 1) * width]]])
  ELSE << ins >>

RECURSIVE LowerLoop(_, _)
LowerLoop(prog, i) ==
  IF i > Len(prog) THEN << >> ELSE LowerPseudo(prog[i]) \o LowerLoop(prog, i + 1)

\* "pseudoinstructions for RA must be removed now", "coalesced moves can be
\* removed"
Stays(I) ==
  /\ I.op \notin {"PHI", "PRELOAD"}
  /\ ~(/\ I.op = "MOV"
       /\ I.src[1].type = "register"
       /\ I.dest[1].size = I.src[1].size
       /\ I.src[1].value = I.dest[1].value
       /\ I.src[1].memory = I.dest[1].memory)

\* the instruction a phi of reserve_live_in is
PhiInstr(p) == [op |-> p.op, src |-> p.src, dest |-> p.dest]

CfgInit ==
  /\ ctx = [n |-> 0, outA |-> NoRegs, outP |-> NoRegs,
            input |-> << >>, srcB |-> << >>, live_phis |-> << >>, instrs |-> << >>, locs |-> << >>,
            progB |-> << >>, endA |-> << >>, endP |-> << >>, final |-> << >>,
            abort |-> ""]
  /\ rctx = NewCtx(TRUE, CfgIds, max_regs, NumMemRegs)
  /\ block = [preds |-> << [done |-> FALSE, ssa_to_reg_out |-> NoRegs],
                           [done |-> FALSE, ssa_to_reg_out |-> NoRegs] >>,
              live_in |-> {}, loop_header |-> FALSE, ssa_to_reg_out |-> NoRegs]
  /\ instr = NoInstr
  /\ live = {}
  /\ regfile = [r \in 0 .. (max_regs - 1) |-> NoVal]
  /\ misread = {}
  /\ est = EmptyEst
  /\ steps = 0
  /\ pc = "cfg_seed"

\* the registers of layout out that the first n values hold
SeedUsed(c, out, n) == UNION { Range(out[v], c.ncomps[v]) : v \in 0 .. (n - 1) }

\* a block above A and P defined one more value; A ends with it in one
\* register, P in another or the same, each off r0l and aligned
CfgSeed ==
  /\ pc = "cfg_seed"
  /\ ctx.n < MaxCfgValues
  /\ \E sh \in CfgShapes : \E ra \in 1 .. (MaxSeedReg - 1) : \E rp \in 1 .. (MaxSeedReg - 1) :
       LET v == ctx.n
           w == ShapeWidth(sh)
       IN /\ ra % w = 0 /\ rp % w = 0
          /\ ra + w <= MaxSeedReg /\ rp + w <= MaxSeedReg
          /\ Range(ra, w) \cap SeedUsed(rctx, ctx.outA, v) = {}
          /\ Range(rp, w) \cap SeedUsed(rctx, ctx.outP, v) = {}
          /\ rctx' = [Gather(rctx, NewIdx(v, sh)) EXCEPT
                        !.visited = @ \cup {v},
                        !.max_reg["RA_GPR"] = MAX2(@, MAX2(ra, rp) + w - 1)]
          /\ ctx' = [ctx EXCEPT !.n = v + 1, !.outA[v] = ra, !.outP[v] = rp]
  /\ UNCHANGED << block, instr, live, regfile, misread, est, steps, pc >>

\* the phis B may start with: none, or one of two values defined above
CfgPhis(c, n) ==
  { << >> } \cup
  { << [op |-> "PHI",
        src |-> << SrcIdx(c, xy[1], 1, FALSE), SrcIdx(c, xy[2], 1, FALSE) >>,
        dest |-> << Idx("normal", PhiValue, c.sizes[xy[1]], 1, FALSE, FALSE) >>] >> :
    xy \in {p \in (0 .. (n - 1)) \X (0 .. (n - 1)) : c.sizes[p[1]] = c.sizes[p[2]]} }

\* the collects B may hold: none, or one of two live-in values of one size,
\* killed by it
CfgCollects(c, live_in) ==
  { << >> } \cup
  { << [op |-> "COLLECT",
        src |-> << SrcIdx(c, xy[1], 1, TRUE), SrcIdx(c, xy[2], 1, TRUE) >>,
        dest |-> << Idx("normal", CollectValue, c.sizes[xy[1]], 2, FALSE, FALSE) >>] >> :
    xy \in {p \in live_in \X live_in :
              p[1] # p[2] /\ c.sizes[p[1]] = c.sizes[p[2]]} }

\* the last instruction of B reads what is live before it
CfgUse(c, phis, collects, live_in) ==
  LET gone == IF collects = << >> THEN {}
              ELSE {collects[1].src[s].value : s \in 1 .. 2}
      rest == SortedSeq(live_in \ gone)
  IN [op |-> "ALU",
      src |-> [k \in 1 .. Len(rest) |-> SrcIdx(c, rest[k], 1, TRUE)]
              \o [k \in 1 .. Len(phis) |-> [phis[k].dest[1] EXCEPT !.kill = TRUE]]
              \o [k \in 1 .. Len(collects) |-> [collects[k].dest[1] EXCEPT !.kill = TRUE]],
      dest |-> << >>]

\* B is given its instructions and live-in set; the first loop of agx_ra
\* gathers them
CfgProgram ==
  /\ pc = "cfg_seed"
  /\ ctx.n >= 1
  /\ \E live_in \in SUBSET (0 .. (ctx.n - 1)) :
     \E phis \in CfgPhis(rctx, ctx.n) :
     \E collects \in CfgCollects(rctx, live_in) :
       LET prog == phis \o collects \o << CfgUse(rctx, phis, collects, live_in) >>
       IN /\ prog[Len(prog)].src # << >>
          /\ ctx' = [ctx EXCEPT !.input = prog, !.srcB = prog]
          /\ rctx' = GatherProgram(rctx, prog, 1)
          /\ block' = [block EXCEPT !.live_in = live_in]
  /\ pc' = "cfg_A"
  /\ UNCHANGED << instr, live, regfile, misread, est, steps >>

\* the end of agx_ra_assign_local for a predecessor of B: its map is kept
\* for B and the sources B's phis take from it are set
CfgEndBlock ==
  /\ pc \in {"cfg_A", "cfg_P"}
  /\ LET k == IF pc = "cfg_A" THEN 1 ELSE 2
         out == IF pc = "cfg_A" THEN ctx.outA ELSE ctx.outP
     IN /\ block' = [block EXCEPT !.preds[k] = [done |-> TRUE, ssa_to_reg_out |-> out]]
        /\ ctx' = [ctx EXCEPT !.srcB = PhiFixup(@, k, out)]
  /\ pc' = IF pc = "cfg_A" THEN "cfg_P" ELSE "cfg_B"
  /\ UNCHANGED << rctx, instr, live, regfile, misread, est, steps >>

\* agx_ra_assign_local for B
CfgAssignB ==
  /\ pc = "cfg_B"
  /\ \E c0 \in { BlockStart(rctx, block) } :
     \E r \in { AssignLoop(c0, ctx.srcB, 1, NoneYet) } :
       /\ rctx' = r.c
       /\ IF c0.abort # "" \/ r.c.abort # ""
            THEN /\ ctx' = [ctx EXCEPT !.abort = IF c0.abort # "" THEN c0.abort
                                                 ELSE r.c.abort]
                 /\ pc' = "abort"
                 /\ block' = block
            ELSE /\ ctx' = [ctx EXCEPT
                              !.live_phis = c0.new_phis,
                              !.instrs = r.instrs,
                              !.locs = r.locs,
                              !.progB = [k \in 1 .. Len(c0.new_phis) |->
                                           PhiInstr(c0.new_phis[k])] \o r.out]
                 /\ block' = [block EXCEPT !.ssa_to_reg_out = r.c.ssa_to_reg]
                 /\ pc' = "cfg_lower"
  /\ UNCHANGED << instr, live, regfile, misread, est, steps >>

\* the loop of agx_ra that lowers collects and splits
CfgLower ==
  /\ pc = "cfg_lower"
  /\ ctx' = [ctx EXCEPT !.progB = LowerLoop(@, 1)]
  /\ pc' = "cfg_copies_A"
  /\ UNCHANGED << rctx, block, instr, live, regfile, misread, est, steps >>

\* agx_insert_parallel_copies for A, then for P
CfgInsertCopies ==
  /\ pc \in {"cfg_copies_A", "cfg_copies_P"}
  /\ \E r \in { agx_insert_parallel_copies(ctx.progB,
                                          IF pc = "cfg_copies_A" THEN 1 ELSE 2) } :
       IF r.abort # ""
         THEN /\ ctx' = [ctx EXCEPT !.abort = r.abort]
              /\ pc' = "abort"
         ELSE /\ ctx' = IF pc = "cfg_copies_A"
                          THEN [ctx EXCEPT !.endA = r.emitted]
                          ELSE [ctx EXCEPT !.endP = r.emitted]
              /\ pc' = IF pc = "cfg_copies_A" THEN "cfg_copies_P" ELSE "cfg_remove"
  /\ UNCHANGED << rctx, block, instr, live, regfile, misread, est, steps >>

\* the last loop of agx_ra; agx_ra returns
CfgRemove ==
  /\ pc = "cfg_remove"
  /\ ctx' = [ctx EXCEPT !.final = SelectSeq(ctx.progB, Stays)]
  /\ pc' = "returned"
  /\ UNCHANGED << rctx, block, instr, live, regfile, misread, est, steps >>

NextCfg ==
  \/ CfgSeed
  \/ CfgProgram
  \/ CfgEndBlock
  \/ CfgAssignB
  \/ CfgLower
  \/ CfgInsertCopies
  \/ CfgRemove

SpecCfg == CfgInit /\ [][NextCfg]_vars

(***************************************************************************)
(* Properties of the program agx_ra returns, and of the copies on the      *)
(* edges into a join                                                       *)
(***************************************************************************)
Operands(I) ==
  {I.src[s] : s \in DOMAIN I.src} \cup {I.dest[d] : d \in DOMAIN I.dest}

NoSsaOperand(prog) ==
  \A i \in DOMAIN prog : \A o \in Operands(prog[i]) : o.type # "normal"

\* operand now is operand orig with the register loc records for its value
Located(orig, now, loc) ==
  now = [orig EXCEPT !.type = "register", !.value = loc[orig.value]]

IsAlu(I) == I.op = "ALU"

\* C5: when agx_ra returns no instruction has an SSA operand left, and
\* every operand that was one names the register recorded for its value
\* at that instruction (for a source of a phi: at the end of the
\* predecessor the source comes from).
C5_NoSsaOnReturn ==
  pc = "returned" =>
    /\ NoSsaOperand(ctx.endA)
    /\ NoSsaOperand(ctx.endP)
    /\ NoSsaOperand(ctx.final)
    /\ Len(ctx.instrs) = Len(ctx.input)
    /\ \A i \in DOMAIN ctx.input :
         /\ \A d \in SsaDests(ctx.input[i]) :
              Located(ctx.input[i].dest[d], ctx.instrs[i].dest[d], ctx.locs[i])
         /\ ctx.input[i].op # "PHI" =>
              \A s \in SsaSrcs(ctx.input[i]) :
                Located(ctx.input[i].src[s], ctx.instrs[i].src[s], ctx.locs[i])
         /\ ctx.input[i].op = "PHI" =>
              /\ Located(ctx.input[i].src[1], ctx.instrs[i].src[1], ctx.outA)
              /\ Located(ctx.input[i].src[2], ctx.instrs[i].src[2], ctx.outP)
    /\ SelectSeq(ctx.final, IsAlu) = SelectSeq(ctx.instrs, IsAlu)

\* agx_ra returned a program whose join had a phi of its own, live-in
\* values in different registers on its two edges, and a collect
C5_Witness ==
  /\ pc = "returned"
  /\ \E i \in DOMAIN ctx.input : ctx.input[i].op = "PHI"
  /\ \E i \in DOMAIN ctx.input : ctx.input[i].op = "COLLECT"
  /\ ctx.endA # << >>
  /\ ctx.endP # << >>
  /\ \E i \in DOMAIN ctx.final : ctx.final[i].op = "ALU" /\ Len(ctx.final[i].src) = 2

\* what the registers hold at the end of a predecessor whose map is out
FileOf(c, out, n) ==
  [r \in 0 .. (max_regs - 1) |->
     LET at == {v \in 0 .. (n - 1) : r \in Range(out[v], c.ncomps[v])}
     IN IF at = {} THEN NoVal
        ELSE LET v == CHOOSE x \in at : TRUE IN << v, r - out[v] >>]

\* the copies of a parallel copy between registers
CopiesOfInstr(I) ==
  [k \in 1 .. Len(I.src) |->
     [dest |-> I.dest[k].value, src |-> I.src[k].value, size |-> I.dest[k].size]]

RECURSIVE RunCopies(_, _)
RunCopies(rf, end) ==
  IF end = << >> THEN rf
  ELSE RunCopies(ApplyPCopy(rf, CopiesOfInstr(Head(end))), Tail(end))

\* registers reg .. reg + n - 1 of rf hold value v
Holds(rf, v, reg, n) == \A j \in 0 .. (n - 1) : rf[reg + j] = << v, j >>

\* the parallel copies are in place at the ends of A and P
CopiesInserted == pc \in {"cfg_remove", "returned"}

\* live-in values v and w of B changed places between A and P
Swapped(v, w) ==
  /\ v # w
  /\ ctx.outA[v] = ctx.outP[w]
  /\ ctx.outA[w] = ctx.outP[v]

AddProgram(sha, shb, shc) ==
  << [op |-> "ALU", src |-> << >>, dest |-> << NewIdx(0, sha) >>],
     [op |-> "ALU", src |-> << >>, dest |-> << NewIdx(1, shb) >>],
     [op |-> "ALU",
      src |-> << Idx("normal", 0, sha.size, sha.channels, FALSE, FALSE),
                 Idx("normal", 1, shb.size, shb.channels, FALSE, FALSE) >>,
      dest |-> << NewIdx(2, shc) >>] >>

\* agx_ra up to the block loop, the file bounded tightly by the demand
AddInit ==
  /\ \E any_cf \in BOOLEAN : \E sha \in Shapes : \E shb \in Shapes :
     \E shc \in Shapes :
       LET prog == agx_compute_liveness(AddProgram(sha, shb, shc))
           bound == MaxRegsFor(agx_calc_register_demand(any_cf, prog, 3))
       IN /\ ctx = [prog |-> prog, marks |-> << >>]
          /\ rctx = BlockStart(
                      GatherProgram(NewCtx(any_cf, 0 .. 2, bound, NumMemRegs),
                                    prog, 1),
                      [preds |-> << >>, live_in |-> {}, loop_header |-> FALSE])
  /\ block = [preds |-> << >>, live_in |-> {}, loop_header |-> FALSE,
              ssa_to_reg_out |-> [v \in Values |-> 0]]
  /\ instr = NoInstr
  /\ live = {}
  /\ regfile = [r \in 0 .. (max_regs - 1) |-> NoVal]
  /\ misread = {}
  /\ est = EmptyEst
  /\ steps = 0
  /\ pc = "add"

\* one iteration of the instruction loop; marks keeps max_reg as it stood
\* after each instruction
AddStep ==
  /\ pc = "add"
  /\ \E I \in { ctx.prog[steps + 1] } : \E c1 \in { ra_instr(rctx, I) } :
       /\ rctx' = c1
       /\ instr' = I
       /\ steps' = steps + 1
       /\ ctx' = [ctx EXCEPT !.marks = Append(@, c1.max_reg["RA_GPR"])]
       /\ live' = (live \ {I.src[s].value : s \in {t \in SsaSrcs(I) : I.src[t].kill}})
                    \cup {I.dest[d].value : d \in SsaDests(I)}
       /\ pc' = IF c1.abort # "" THEN "abort"
                ELSE IF steps + 1 = Len(ctx.prog) THEN "added" ELSE "add"
  /\ UNCHANGED << block, regfile, misread, est >>

NextAdd == AddStep

SpecAdd == AddInit /\ [][NextAdd]_vars

\* the values a, b and c of the block
AddA == ctx.prog[1].dest[1].value
AddB == ctx.prog[2].dest[1].value
AddC == ctx.prog[3].dest[1].value

\* the last sub-unit of value v
LastOf(c, v) == c.ssa_to_reg[v] + c.ncomps[v] - 1

\* the first window of width n in a file that holds the nesting counter at
\* most
FirstFree(c, n) == IF c.any_cf THEN n ELSE 0

\* C11: in the block a = const; b = const; c = a + b, with a and b killed at
\* the add, a and b get disjoint ranges of their own (rounded) widths; both
\* ranges are free again when the register of c is picked, so c takes the
\* first window of the file and may overlap them; and max_reg ends as the
\* largest last sub-unit over a, b and c, never having decreased.
C11_AddBlock ==
  /\ pc # "abort"
  /\ pc = "added" =>
       /\ rctx.ncomps[AddA]
            = util_next_power_of_two(agx_index_size_16(ctx.prog[1].dest[1]))
       /\ rctx.ncomps[AddB]
            = util_next_power_of_two(agx_index_size_16(ctx.prog[2].dest[1]))
       /\ rctx.ssa_to_reg[AddA] % rctx.ncomps[AddA] = 0
       /\ rctx.ssa_to_reg[AddB] % rctx.ncomps[AddB] = 0
       /\ RangeOf(rctx, AddA) \cap RangeOf(rctx, AddB) = {}
       /\ rctx.ssa_to_reg[AddC] = FirstFree(rctx, rctx.ncomps[AddC])
       /\ rctx.used_regs["RA_GPR"]
            = RangeOf(rctx, AddC) \cup (IF rctx.any_cf THEN {0} ELSE {})
       /\ rctx.max_reg["RA_GPR"]
            = MAX2(LastOf(rctx, AddA), MAX2(LastOf(rctx, AddB), LastOf(rctx, AddC)))
  /\ \A k \in 1 .. Len(ctx.marks) : \A j \in 1 .. k : ctx.marks[j] <= ctx.marks[k]

\* c was given registers of a, and the mark is b's, above c
C11_Witness ==
  /\ pc = "added"
  /\ RangeOf(rctx, AddC) \cap RangeOf(rctx, AddA) # {}
  /\ rctx.max_reg["RA_GPR"] = LastOf(rctx, AddB)
  /\ rctx.max_reg["RA_GPR"] > LastOf(rctx, AddC)


(***************************************************************************)
(* Single assignment                                                       *)
(***************************************************************************)
\* some value is the destination of two instructions of prog
DefinedTwice(prog) ==
  \E i \in 1 .. Len(prog) : \E j \in 1 .. (i - 1) :
  \E d \in SsaDests(prog[i]) : \E e \in SsaDests(prog[j]) :
    prog[i].dest[d].value = prog[j].dest[e].value

\* ncomps, sizes and classes are what the one definition of each value says
WidthsAsDefined(c, prog) ==
  \A i \in 1 .. Len(prog) : \A d \in SsaDests(prog[i]) :
    LET idx == prog[i].dest[d] IN
    /\ c.ncomps[idx.value] = util_next_power_of_two(agx_index_size_16(idx))
    /\ c.sizes[idx.value] = idx.size
    /\ c.classes[idx.value] = ra_class_for_index(idx)

\* C12: agx_ra never allocates a program in which a value is defined twice:
\* it stops on the assertion "broken SSA" with no register assigned; a
\* program in SSA form never fails "broken SSA" or "SSA violated" (no value
\* reaches assign_regs twice), and when its block is allocated ncomps, sizes
\* and classes of every value are those its definition gave.
C12_SingleAssignment ==
  /\ (pc # "build" /\ DefinedTwice(ctx.input)) =>
       /\ pc = "abort"
       /\ ctx.abort = "broken SSA"
       /\ NothingAssigned
  /\ ~DefinedTwice(ctx.prog) =>
       /\ ctx.abort \notin {"broken SSA", "SSA violated"}
       /\ rctx.abort \notin {"broken SSA", "SSA violated"}
  /\ pc = "done" =>
       /\ ~DefinedTwice(ctx.prog)
       /\ WidthsAsDefined(rctx, ctx.prog)
       /\ rctx.visited = {prog_v \in 0 .. (ctx.alloc - 1) :
                            \E i \in 1 .. Len(ctx.prog) : \E d \in SsaDests(ctx.prog[i]) :
                              ctx.prog[i].dest[d].value = prog_v}

\* a program of three instructions, the last defining the first value again,
\* was turned down
C12_Witness ==
  /\ pc = "abort"
  /\ ctx.abort = "broken SSA"
  /\ Len(ctx.input) >= 3
  /\ DefinedTwice(ctx.input)
  /\ \E i \in 1 .. Len(ctx.input) : SsaSrcs(ctx.input[i]) # {}

\* ... and a program in SSA form with vectors was allocated
C12_Allocated ==
  /\ pc = "done"
  /\ \E v \in rctx.visited : rctx.ncomps[v] = 8
  /\ \E v \in rctx.visited : rctx.ncomps[v] = 1


(***************************************************************************)
(* agx_ra over the blocks of a program with a phi: a diamond (the phi in   *)
(* the join) or a loop (the phi in the header)                             *)
(***************************************************************************)
\* the values: 0 and 2 are the sources of the phi, 3 its destination, 1 is
\* defined in the entry block
BlkIds == 0 .. 3

BlkIdx(v, sh, kill) == Idx("normal", v, sh.size, sh.channels, kill, FALSE)
BlkDef(v, sh, srcs) == [op |-> "ALU", src |-> srcs, dest |-> << NewIdx(v, sh) >>]
BlkUse(srcs) == [op |-> "ALU", src |-> srcs, dest |-> << >>]
BlkPhi(sh, second) ==
  [op |-> "PHI", src |-> << BlkIdx(0, sh, FALSE), BlkIdx(second, sh, FALSE) >>,
   dest |-> << NewIdx(3, sh) >>]

\* no call of agx_emit_parallel_copies yet
NoCopies == [before |-> << >>, calls |-> << >>]

Blk(preds, succs, loop_header, live_in, prog) ==
  [preds |-> preds, succs |-> succs, loop_header |-> loop_header,
   live_in |-> live_in, prog |-> prog]

\* entry; then and else sides, each defining a source of the phi; join.
\* Value 1 is live across the branch (keep) or dies in the entry block
Diamond(sh, sh1, keep) ==
  LET through == IF keep THEN {1} ELSE {} IN
  << Blk(<< >>, << 2, 3 >>, FALSE, {},
         << BlkDef(1, sh1, << >>) >>
           \o IF keep THEN << >> ELSE << BlkUse(<< BlkIdx(1, sh1, TRUE) >>) >>),
     Blk(<< 1 >>, << 4 >>, FALSE, through, << BlkDef(0, sh, << >>) >>),
     Blk(<< 1 >>, << 4 >>, FALSE, through, << BlkDef(2, sh, << >>) >>),
     Blk(<< 2, 3 >>, << >>, FALSE, through,
         << BlkPhi(sh, 2),
            BlkUse(<< BlkIdx(3, sh, TRUE) >>
                     \o IF keep THEN << BlkIdx(1, sh1, TRUE) >> ELSE << >>) >>) >>

\* entry, defining the first source of the phi; loop header; loop body,
\* defining value 2 from the phi.  Value 1 is live around the loop (keep) or
\* dies in the entry block.  The second source of the phi is value 2, or
\* value 1 carried around the loop unchanged (carried)
Loop(sh, sh1, keep, carried) ==
  LET through == IF keep THEN {1} ELSE {} IN
  << Blk(<< >>, << 2 >>, FALSE, {},
         << BlkDef(0, sh, << >>), BlkDef(1, sh1, << >>) >>
           \o IF keep THEN << >> ELSE << BlkUse(<< BlkIdx(1, sh1, TRUE) >>) >>),
     Blk(<< 1, 3 >>, << 3 >>, TRUE, through,
         << BlkPhi(sh, IF carried THEN 1 ELSE 2),
            BlkUse(<< BlkIdx(3, sh, FALSE) >>) >>),
     Blk(<< 2 >>, << 2 >>, FALSE, {3} \cup through,
         << BlkDef(2, sh, << BlkIdx(3, sh, TRUE) >>) >>
           \o IF keep THEN << BlkUse(<< BlkIdx(1, sh1, FALSE) >>) >> ELSE << >>) >>

\* agx_foreach_instr_global
RECURSIVE AllInstrs(_, _)
AllInstrs(blocks, k) ==
  IF k > Len(blocks) THEN << >> ELSE blocks[k].prog \o AllInstrs(blocks, k + 1)

\* agx_predecessor_index
PredIndex(b, k) == CHOOSE p \in 1 .. Len(b.preds) : b.preds[p] = k

\* src_to_collect_phi holds pointers: what it points to is the phi as it
\* stands by now, the last of the phis of its block
Repoint(c, blocks) ==
  LET phis == SelectSeq(AllInstrs(blocks, 1), IsPhi) IN
  [c EXCEPT !.src_to_collect_phi =
     [v \in DOMAIN @ |-> IF @[v].op = "PHI" THEN phis[Len(phis)] ELSE @[v]]]

BlkInit ==
  /\ \E loop \in BOOLEAN : \E sh \in CfgShapes : \E sh1 \in Shapes :
     \E keep \in BOOLEAN : \E carried \in BOOLEAN :
       LET blocks == IF loop THEN Loop(sh, sh1, keep, carried)
                     ELSE Diamond(sh, sh1, keep)
       IN /\ carried => (loop /\ keep /\ sh1 = sh)
          /\ ctx = [blocks |-> blocks, input |-> blocks, next |-> 1,
                    outs |-> [k \in 1 .. Len(blocks) |-> [v \in BlkIds |-> 0]],
                    null |-> [k \in 1 .. Len(blocks) |-> TRUE],
                    writes |-> [k \in 1 .. Len(blocks) |-> 0],
                    pcopies |-> [k \in 1 .. Len(blocks) |-> NoCopies],
                    ins |-> [k \in 1 .. Len(blocks) |-> << >>],
                    reads |-> {}, abort |-> ""]
          /\ rctx = GatherProgram(NewCtx(TRUE, BlkIds, max_regs, NumMemRegs),
                                  AllInstrs(blocks, 1), 1)
  /\ block = [preds |-> << >>, live_in |-> {}, loop_header |-> FALSE,
              ssa_to_reg_out |-> [v \in Values |-> 0]]
  /\ instr = NoInstr
  /\ live = {}
  /\ regfile = [r \in 0 .. (max_regs - 1) |-> NoVal]
  /\ misread = {}
  /\ est = EmptyEst
  /\ steps = 0
  /\ pc = "blk_assign"

\* the end of agx_ra_assign_local for block k: the phis of its successors
\* take their sources from the map it ends with
FixSuccessors(blocks, k, ssa_to_reg) ==
  [s \in 1 .. Len(blocks) |->
     IF \E i \in 1 .. Len(blocks[k].succs) : blocks[k].succs[i] = s
       THEN [blocks[s] EXCEPT
               !.prog = PhiFixup(@, PredIndex(blocks[s], k), ssa_to_reg)]
       ELSE blocks[s]]

\* agx_ra_assign_local for the next block of the program.  reads records
\* which ssa_to_reg_out reserve_live_in looked at, and whether it was NULL;
\* ins the map the block starts with, after reserve_live_in
BlkAssign ==
  /\ pc = "blk_assign"
  /\ \E k \in { ctx.next } : \E b \in { ctx.blocks[ctx.next] } :
     \E c0 \in { BlockStart(
                   Repoint(rctx, ctx.blocks),
                   [preds |-> [p \in 1 .. Len(b.preds) |->
                                 [done |-> ~ctx.null[b.preds[p]],
                                  ssa_to_reg_out |-> ctx.outs[b.preds[p]]]],
                    live_in |-> b.live_in, loop_header |-> b.loop_header]) } :
     \E r \in { AssignLoop(c0, b.prog, 1, NoneYet) } :
       /\ rctx' = r.c
       /\ IF r.c.abort # ""
            THEN /\ ctx' = [ctx EXCEPT !.abort = r.c.abort]
                 /\ pc' = "abort"
            ELSE /\ ctx' = [ctx EXCEPT
                      !.blocks = FixSuccessors(
                                   [@ EXCEPT ![k].prog =
                                      [n \in 1 .. Len(c0.new_phis) |->
                                         PhiInstr(c0.new_phis[n])] \o r.out],
                                   k, r.c.ssa_to_reg),
                      !.outs[k] = r.c.ssa_to_reg,
                      !.ins[k] = c0.ssa_to_reg,
                      !.null[k] = FALSE,
                      !.writes[k] = @ + 1,
                      !.reads = @ \cup
                         IF b.live_in \cap rctx.visited = {} THEN {}
                         ELSE {[reader |-> k, of |-> b.preds[p],
                                null |-> ctx.null[b.preds[p]]] :
                               p \in 1 .. Len(b.preds)},
                      !.next = IF k = Len(ctx.blocks) THEN 1 ELSE k + 1]
                 /\ pc' = IF k = Len(ctx.blocks) THEN "blk_lower" ELSE "blk_assign"
  /\ UNCHANGED << block, instr, live, regfile, misread, est, steps >>

\* the loop of agx_ra that lowers collects and splits
BlkLower ==
  /\ pc = "blk_lower"
  /\ ctx' = [ctx EXCEPT !.blocks = [k \in 1 .. Len(@) |->
                                      [@[k] EXCEPT !.prog = LowerLoop(@, 1)]]]
  /\ pc' = "blk_copies"
  /\ UNCHANGED << rctx, block, instr, live, regfile, misread, est, steps >>

\* (variant: only a phi-bearing successor that comes first is noticed)
RECURSIVE CopiesLoop_FirstCheck(_, _, _, _)
CopiesLoop_FirstCheck(blocks, k, i, st) ==
  IF st.abort # "" \/ i > Len(blocks[k].succs) THEN st
  ELSE
    LET succ == blocks[blocks[k].succs[i]]
        phis == Len(SelectSeq(succ.prog, IsPhi))
        r == agx_insert_parallel_copies(succ.prog, PredIndex(succ, k))
    IN
    IF st.nr_phi # 0
      THEN [st EXCEPT !.abort = "control flow graph has a critical edge"]
    ELSE IF phis = 0
      THEN CopiesLoop_FirstCheck(blocks, k, i + 1, [st EXCEPT !.any_succ = TRUE])
    ELSE IF r.abort # "" THEN [st EXCEPT !.abort = r.abort]
    ELSE CopiesLoop_FirstCheck(blocks, k, i + 1,
                    [st EXCEPT !.any_succ = TRUE, !.nr_phi = phis,
                               !.emitted = @ \o r.emitted,
                               !.calls = Append(@, r.copies)])

\* the loop over the successors of block k in agx_insert_parallel_copies:
\* [abort, any_succ, nr_phi, emitted]; calls records the arrays handed to
\* agx_emit_parallel_copies
RECURSIVE CopiesLoop(_, _, _, _)
CopiesLoop(blocks, k, i, st) ==
  IF st.abort # "" \/ i > Len(blocks[k].succs) THEN st
  ELSE
    LET succ == blocks[blocks[k].succs[i]]
        phis == Len(SelectSeq(succ.prog, IsPhi))
        r == agx_insert_parallel_copies(succ.prog, PredIndex(succ, k))
    IN
    IF st.nr_phi # 0 \/ (phis > 0 /\ st.any_succ)
      THEN [st EXCEPT !.abort = "control flow graph has a critical edge"]
    ELSE IF phis = 0
      THEN CopiesLoop(blocks, k, i + 1, [st EXCEPT !.any_succ = TRUE])
    ELSE IF r.abort # "" THEN [st EXCEPT !.abort = r.abort]
    ELSE CopiesLoop(blocks, k, i + 1,
                    [st EXCEPT !.any_succ = TRUE, !.nr_phi = phis,
                               !.emitted = @ \o r.emitted,
                               !.calls = Append(@, r.copies)])

\* agx_insert_parallel_copies for the next block: the copies go to its end
BlkCopies ==
  /\ pc = "blk_copies"
  /\ \E k \in { ctx.next } :
     \E st \in { CopiesLoop(ctx.blocks, ctx.next, 1,
                            [abort |-> "", any_succ |-> FALSE, nr_phi |-> 0,
                             emitted |-> << >>, calls |-> << >>]) } :
       IF st.abort # ""
         THEN /\ ctx' = [ctx EXCEPT !.abort = st.abort]
              /\ pc' = "abort"
         ELSE /\ ctx' = [ctx EXCEPT !.blocks[k].prog = @ \o st.emitted,
                                    !.pcopies[k] = [before |-> ctx.blocks[k].prog,
                                                    calls |-> st.calls],
                                    !.next = IF k = Len(ctx.blocks) THEN 1 ELSE k + 1]
              /\ pc' = IF k = Len(ctx.blocks) THEN "blk_remove" ELSE "blk_copies"
  /\ UNCHANGED << rctx, block, instr, live, regfile, misread, est, steps >>

\* (variant: the map of the last block is left behind)
free_ssa_to_reg_out_ButLast(nul) ==
  [k \in DOMAIN nul |-> k # Len(nul)]

\* free(block->ssa_to_reg_out); block->ssa_to_reg_out = NULL, for every block
free_ssa_to_reg_out(nul) ==
  [k \in DOMAIN nul |-> TRUE]

\* the last loops of agx_ra; agx_ra returns
BlkRemove ==
  /\ pc = "blk_remove"
  /\ ctx' = [ctx EXCEPT !.blocks = [k \in 1 .. Len(@) |->
                                      [@[k] EXCEPT !.prog = SelectSeq(@, Stays)]],
                        !.null = free_ssa_to_reg_out(@)]
  /\ pc' = "returned"
  /\ UNCHANGED << rctx, block, instr, live, regfile, misread, est, steps >>

NextBlk == BlkAssign \/ BlkLower \/ BlkCopies \/ BlkRemove

SpecBlk == BlkInit /\ [][NextBlk]_vars

\* the values of the branch programs: those of BlkIds, and 4 to 6 for the
\* instructions the entry block starts with
EdgeIds == 0 .. 6

PseudoKinds == {"none", "collect", "hole", "split", "lane", "preload"}

\* what the entry block starts with: nothing; a COLLECT of two scalars, or
\* of two scalars with a null source between them; a SPLIT of a vector of
\* two channels into both, or into the second alone; a PRELOAD.  The
\* sources die at the COLLECT or SPLIT (kill) or after it
Pseudo(kind, sh, kill) ==
  LET vec == [size |-> sh.size, channels |-> 2]
      late == IF kill THEN << >>
              ELSE << BlkIdx(4, sh, TRUE), BlkIdx(5, sh, TRUE) >>
  IN
  IF kind \in {"collect", "hole"} THEN
    << BlkDef(4, sh, << >>), BlkDef(5, sh, << >>),
       [op |-> "COLLECT",
        src |-> IF kind = "hole"
                  THEN << BlkIdx(4, sh, kill), agx_null, BlkIdx(5, sh, kill) >>
                  ELSE << BlkIdx(4, sh, kill), BlkIdx(5, sh, kill) >>,
        dest |-> << Idx("normal", 6, sh.size, IF kind = "hole" THEN 3 ELSE 2,
                        FALSE, FALSE) >>],
       BlkUse(<< Idx("normal", 6, sh.size, IF kind = "hole" THEN 3 ELSE 2,
                     TRUE, FALSE) >> \o late) >>
  ELSE IF kind \in {"split", "lane"} THEN
    << BlkDef(4, vec, << >>),
       [op |-> "SPLIT",
        src |-> << BlkIdx(4, vec, kill) >>,
        dest |-> << IF kind = "lane" THEN agx_null ELSE NewIdx(5, sh),
                    NewIdx(6, sh) >>],
       BlkUse((IF kind = "lane" THEN << >> ELSE << BlkIdx(5, sh, TRUE) >>)
                \o << BlkIdx(6, sh, TRUE) >>
                \o IF kill THEN << >> ELSE << BlkIdx(4, vec, TRUE) >>) >>
  ELSE IF kind = "preload" THEN
    << [op |-> "PRELOAD",
        src |-> << Idx("register", 2, sh.size, 1, FALSE, FALSE) >>,
        dest |-> << NewIdx(4, sh) >>],
       BlkUse(<< BlkIdx(4, sh, TRUE) >>) >>
  ELSE << >>

\* a branch whose one side falls through to the join.  The entry block goes
\* to the join itself (direct: the edge is critical) or through a block of
\* its own on that edge.  The join has a phi of its own (own), whose first
\* source is value 0 of the entry block or an immediate (imm); value 1 is
\* live across the branch (keep); the entry block names the side block
\* first or the other successor first (swap); the entry block starts with
\* the instructions pre
Edge(sh, sh1, keep, own, imm, direct, swap, pre) ==
  LET through == IF keep THEN {1} ELSE {}
      carried == IF own /\ ~imm THEN {0} ELSE {}
      phi == [op |-> "PHI",
              src |-> << IF imm THEN Idx("immediate", 0, AGX_SIZE_16, 1, FALSE, FALSE)
                         ELSE BlkIdx(0, sh, FALSE),
                         BlkIdx(2, sh, FALSE) >>,
              dest |-> << NewIdx(3, sh) >>]
      entry == pre
                 \o (IF own /\ ~imm THEN << BlkDef(0, sh, << >>) >> ELSE << >>)
                 \o << BlkDef(1, sh1, << >>) >>
                 \o IF keep THEN << >> ELSE << BlkUse(<< BlkIdx(1, sh1, TRUE) >>) >>
      side == << BlkDef(2, sh, << >>) >>
                \o IF own THEN << >> ELSE << BlkUse(<< BlkIdx(2, sh, TRUE) >>) >>
      join == (IF own THEN << phi >> ELSE << >>)
                \o << BlkUse((IF own THEN << BlkIdx(3, sh, TRUE) >> ELSE << >>)
                               \o IF keep THEN << BlkIdx(1, sh1, TRUE) >> ELSE << >>) >>
  IN
  IF direct
    THEN << Blk(<< >>, IF swap THEN << 3, 2 >> ELSE << 2, 3 >>, FALSE, {}, entry),
            Blk(<< 1 >>, << 3 >>, FALSE, through, side),
            Blk(<< 1, 2 >>, << >>, FALSE, through, join) >>
    ELSE << Blk(<< >>, IF swap THEN << 3, 2 >> ELSE << 2, 3 >>, FALSE, {}, entry),
            Blk(<< 1 >>, << 4 >>, FALSE, through, side),
            Blk(<< 1 >>, << 4 >>, FALSE, through \cup carried, << >>),
            Blk(<< 3, 2 >>, << >>, FALSE, through, join) >>

EdgeInit ==
  /\ \E sh \in CfgShapes : \E sh1 \in Shapes : \E keep \in BOOLEAN :
     \E own \in BOOLEAN : \E imm \in BOOLEAN : \E direct \in BOOLEAN :
     \E swap \in BOOLEAN : \E kind \in PseudoKinds : \E kill \in BOOLEAN :
       LET blocks == Edge(sh, sh1, keep, own, imm, direct, swap,
                          Pseudo(kind, sh, kill))
       IN /\ imm => own
          /\ kind = "none" => kill
          /\ kind = "preload" => kill
          /\ kind # "none" => (~imm /\ ~direct /\ ~swap)
          /\ ctx = [blocks |-> blocks, input |-> blocks, next |-> 1,
                    outs |-> [k \in 1 .. Len(blocks) |-> [v \in EdgeIds |-> 0]],
                    null |-> [k \in 1 .. Len(blocks) |-> TRUE],
                    writes |-> [k \in 1 .. Len(blocks) |-> 0],
                    pcopies |-> [k \in 1 .. Len(blocks) |-> NoCopies],
                    ins |-> [k \in 1 .. Len(blocks) |-> << >>],
                    reads |-> {}, abort |-> ""]
          /\ rctx = GatherProgram(NewCtx(TRUE, EdgeIds, max_regs, NumMemRegs),
                                  AllInstrs(blocks, 1), 1)
  /\ block = [preds |-> << >>, live_in |-> {}, loop_header |-> FALSE,
              ssa_to_reg_out |-> [v \in Values |-> 0]]
  /\ instr = NoInstr
  /\ live = {}
  /\ regfile = [r \in 0 .. (max_regs - 1) |-> NoVal]
  /\ misread = {}
  /\ est = EmptyEst
  /\ steps = 0
  /\ pc = "blk_assign"

SpecEdge == EdgeInit /\ [][NextBlk]_vars

\* programs in which value 1, live into a join or around a loop, is defined
\* in register 8 behind temporaries that die at once, and an eight-register
\* vector (value 6 or 7) is defined where the flags say: in the first or
\* the second predecessor of the join, or in the body of the loop
FlowIds == 0 .. 7

\* the shapes of value 1: a scalar or a vector of two channels
FlowShapes == CfgShapes \cup { [size |-> AGX_SIZE_32, channels |-> 2] }

Crowded(loop, sh, sh1, first, second) ==
  LET vec4 == [size |-> AGX_SIZE_32, channels |-> 4]
      vec2 == [size |-> AGX_SIZE_32, channels |-> 2]
      word == [size |-> AGX_SIZE_32, channels |-> 1]
      half == [size |-> AGX_SIZE_16, channels |-> 1]
      wide(v) == << BlkDef(v, vec4, << >>), BlkUse(<< BlkIdx(v, vec4, TRUE) >>) >>
      entry == << BlkDef(4, word, << >>), BlkDef(5, vec2, << >>),
                  BlkDef(1, sh1, << >>),
                  BlkUse(<< BlkIdx(4, word, TRUE), BlkIdx(5, vec2, TRUE) >>) >>
  IN
  IF loop
    THEN << Blk(<< >>, << 2 >>, FALSE, {}, entry \o << BlkDef(0, sh, << >>) >>),
            Blk(<< 1, 3 >>, << 3 >>, TRUE, {1},
                << BlkPhi(sh, 2), BlkUse(<< BlkIdx(3, sh, FALSE) >>) >>),
            Blk(<< 2 >>, << 2 >>, FALSE, {1, 3},
                << BlkDef(2, sh, << BlkIdx(3, sh, TRUE) >>) >>
                  \o (IF second THEN wide(7) ELSE << >>)
                  \o << BlkUse(<< BlkIdx(1, sh1, FALSE) >>) >>) >>
    ELSE << Blk(<< >>, << 2, 3 >>, FALSE, {}, entry),
            Blk(<< 1 >>, << 4 >>, FALSE, {1},
                << BlkDef(0, sh, << >>) >> \o (IF first THEN wide(6) ELSE << >>)),
            Blk(<< 1 >>, << 4 >>, FALSE, {1},
                << BlkDef(2, sh, << >>) >> \o (IF second THEN wide(7) ELSE << >>)),
            Blk(<< 2, 3 >>, << >>, FALSE, {1},
                << BlkPhi(sh, 2),
                   BlkUse(<< BlkIdx(3, sh, TRUE), BlkIdx(1, sh1, TRUE) >>) >>) >>

FlowInit ==
  /\ \E loop \in BOOLEAN : \E sh \in CfgShapes : \E sh1 \in FlowShapes :
     \E first \in BOOLEAN : \E second \in BOOLEAN :
       LET blocks == Crowded(loop, sh, sh1, first, second)
       IN /\ loop => ~first
          /\ ctx = [blocks |-> blocks, input |-> blocks, next |-> 1,
                    outs |-> [k \in 1 .. Len(blocks) |-> [v \in FlowIds |-> 0]],
                    null |-> [k \in 1 .. Len(blocks) |-> TRUE],
                    writes |-> [k \in 1 .. Len(blocks) |-> 0],
                    pcopies |-> [k \in 1 .. Len(blocks) |-> NoCopies],
                    ins |-> [k \in 1 .. Len(blocks) |-> << >>],
                    reads |-> {}, abort |-> ""]
          /\ rctx = GatherProgram(NewCtx(TRUE, FlowIds, max_regs, NumMemRegs),
                                  AllInstrs(blocks, 1), 1)
  /\ block = [preds |-> << >>, live_in |-> {}, loop_header |-> FALSE,
              ssa_to_reg_out |-> [v \in Values |-> 0]]
  /\ instr = NoInstr
  /\ live = {}
  /\ regfile = [r \in 0 .. (max_regs - 1) |-> NoVal]
  /\ misread = {}
  /\ est = EmptyEst
  /\ steps = 0
  /\ pc = "blk_assign"

SpecFlow == FlowInit /\ [][NextBlk]_vars


(***************************************************************************)
(* Properties of the allocation of the blocks of a program                 *)
(***************************************************************************)
\* the block of the program that holds its phi
PhiBlock ==
  CHOOSE k \in 1 .. Len(ctx.input) :
    \E i \in 1 .. Len(ctx.input[k].prog) : ctx.input[k].prog[i].op = "PHI"

\* the SSA values among the sources of instruction I
SsaSrcValues(I) == {I.src[s].value : s \in SsaSrcs(I)}

\* the allocation of every block went through, and no instruction but a phi
\* is left with an SSA source
SourcesRewritten ==
  /\ pc # "abort"
  /\ rctx.abort = ""
  /\ \A k \in 1 .. Len(ctx.blocks) :
       (pc # "blk_assign" \/ k < ctx.next) =>
         \A i \in 1 .. Len(ctx.blocks[k].prog) :
           ctx.blocks[k].prog[i].op # "PHI" => SsaSrcs(ctx.blocks[k].prog[i]) = {}

\* the read r of an unvisited value was made for the phi being assigned
OfPhiAssigned(r) ==
  /\ r.phi.dest[1].type = "normal"
  /\ r.phi.dest[1].value = r.dest

Allocated(k) == pc \notin {"blk_assign", "abort"} \/ k < ctx.next

\* C14: ssa_to_reg_out of a block is written once, when the allocation of
\* the block finishes; reserve_live_in reads it for the predecessors of the
\* block it seeds only, and finds it written unless the block is a loop
\* header whose predecessor along the back edge comes later; when agx_ra
\* returns every ssa_to_reg_out is freed and NULL.
C14_LiveOutHandoff ==
  /\ \A k \in 1 .. Len(ctx.blocks) :
       /\ ctx.writes[k] = IF Allocated(k) THEN 1 ELSE 0
       /\ ~ctx.null[k] <=> (Allocated(k) /\ pc # "returned")
  /\ \A r \in ctx.reads :
       /\ \E p \in 1 .. Len(ctx.blocks[r.reader].preds) :
            ctx.blocks[r.reader].preds[p] = r.of
       /\ r.null => ctx.blocks[r.reader].loop_header /\ r.of > r.reader
       /\ ~r.null => r.of < r.reader
  /\ pc = "returned" => \A k \in 1 .. Len(ctx.blocks) : ctx.null[k]

\* agx_ra returned for the loop: the header was seeded from the entry block
\* with the map of the loop body still NULL, the body from the header
C14_Witness ==
  /\ pc = "returned"
  /\ \A k \in 1 .. Len(ctx.blocks) : ctx.null[k] /\ ctx.writes[k] = 1
  /\ \E r \in ctx.reads : r.null /\ r.reader = 2 /\ r.of = 3
  /\ \E r \in ctx.reads : ~r.null /\ r.reader = 2 /\ r.of = 1
  /\ \E r \in ctx.reads : ~r.null /\ r.reader = 3 /\ r.of = 2


(***************************************************************************)
(* Properties of the occupancy and of the registers handed out             *)
(***************************************************************************)
RaClasses == {"RA_GPR", "RA_MEM"}

\* the registers of the live values of class cls
Occupied(cls) == UNION {RangeOf(rctx, v) : v \in {w \in live : rctx.classes[w] = cls}}

\* the bit of the nesting counter r0l
NestingCounter == IF rctx.any_cf THEN {0} ELSE {}

\* C15 as stated: at every instruction boundary the occupancy bitset of
\* each class is exactly the union of the ranges of the live values: no bit
\* is set without a live value owning it, no live value has a clear bit.
C15_OccupancyIsLiveRanges ==
  pc = "walk" => \A cls \in RaClasses : rctx.used_regs[cls] = Occupied(cls)

\* C15 amended: at every instruction boundary the occupancy bitset of
\* each class is the union of the ranges of the live values, plus, in the
\* general-purpose class of a shader that uses control flow, bit 0 of the
\* nesting counter r0l, which no value owns.
C15_OccupancyIsLiveRangesAndR0l ==
  pc = "walk" =>
    /\ rctx.used_regs["RA_GPR"] = Occupied("RA_GPR") \cup NestingCounter
    /\ rctx.used_regs["RA_MEM"] = Occupied("RA_MEM")
    /\ NestingCounter \cap Occupied("RA_GPR") = {}

\* under control flow an instruction killed a source, evicted a value and
\* defined a value that stays live with two others
C15_Witness ==
  /\ pc = "walk"
  /\ rctx.any_cf
  /\ rctx.evicted
  /\ \E s \in SsaSrcs(instr) : instr.src[s].kill
  /\ Made # {}
  /\ Cardinality(live) >= 3
  /\ 0 \in rctx.used_regs["RA_GPR"]


\* the sources the last instruction killed
KilledNow == {instr.src[s].value : s \in {t \in SsaSrcs(instr) : instr.src[t].kill}}

\* the values the last instruction moved
Moved == {v \in rctx.visited \ Made : rctx.ssa_to_reg[v] # rctx.start.ssa_to_reg[v]}

\* the killed sources the last instruction moved
Relocated == KilledNow \cap Moved

\* every live value has its registers marked and holds them
Occupies ==
  /\ \A v \in live : RangeOf(rctx, v) \subseteq rctx.used_regs[rctx.classes[v]]
  /\ ContentsKept

\* C16 as stated: every register given to a value (by coalescing, by the
\* free-region search, by eviction, by relocation of a killed source into the
\* destination window, by killed-SPLIT reuse, by PRELOAD, by live-in
\* seeding) is a multiple of the value's width ncomps, and the value
\* occupies the ncomps sub-units from there.
C16_AlignedToWidth ==
  pc = "walk" =>
    /\ \A v \in rctx.visited : rctx.ssa_to_reg[v] % rctx.ncomps[v] = 0
    /\ Occupies

\* C16 amended: every register given to a value is a multiple of the
\* value's width ncomps, but for a killed source relocated into the
\* destination window, whose register is a multiple of the size of its
\* scalars and whose range is inside the window; a live value occupies the
\* ncomps sub-units from its register.
C16_AlignedToWidthOrScalar ==
  pc = "walk" =>
    /\ \A v \in rctx.visited \ Relocated : rctx.ssa_to_reg[v] % rctx.ncomps[v] = 0
    /\ \A v \in Relocated :
         /\ rctx.ssa_to_reg[v] % agx_size_align_16(rctx.sizes[v]) = 0
         /\ \E n \in 1 .. Len(rctx.evs) : RangeOf(rctx, v) \subseteq WindowOf(rctx.evs[n])
    /\ Occupies

\* an eviction re-homed a live value and put a killed vector in the window,
\* off the multiples of its width
C16_Witness ==
  /\ pc = "walk"
  /\ Moved \cap live # {}
  /\ \E v \in Relocated : rctx.ssa_to_reg[v] % rctx.ncomps[v] # 0
  /\ \E v \in Made : rctx.ssa_to_reg[v] % rctx.ncomps[v] = 0 /\ rctx.ncomps[v] = 8

\* C17: the estimator and the allocator give a value the same width,
\* util_next_power_of_two of its size in 16-bit units, and at every
\* instruction boundary the occupied general-purpose sub-units, r0l
\* included, are at most the demand agx_calc_register_demand has computed.
C17_OccupancyWithinDemand ==
  /\ pc = "walk" => Cardinality(rctx.used_regs["RA_GPR"]) <= est.max_demand
  /\ \A d \in SsaDests(instr) :
       LET v == instr.dest[d].value
           w == util_next_power_of_two(agx_index_size_16(instr.dest[d]))
       IN /\ DemandGather(EmptyWidths(Values), instr.dest[d]).widths[v] = w
          /\ Gather(EmptyCtx(FALSE), instr.dest[d]).ncomps[v] = w
          /\ pc = "walk" => rctx.ncomps[v] = w

\* an instruction that kills a value it names twice, under control flow,
\* filled the file up to the demand
C17_Witness ==
  /\ pc = "walk"
  /\ rctx.any_cf
  /\ Repeats(instr)
  /\ KilledNow # {}
  /\ Made # {}
  /\ Cardinality(rctx.used_regs["RA_GPR"]) = est.max_demand
  /\ est.max_demand = est.demand

\* the instruction goes through the loop body proper: not a PRELOAD, not a
\* SPLIT of a killed source
Ordinary(I) ==
  /\ I.op \notin {"NONE", "PRELOAD"}
  /\ ~(I.op = "SPLIT" /\ I.src[1].kill)

\* the registers the killed sources of class cls had when the instruction
\* was reached
KilledRanges(cls) ==
  UNION {Range(rctx.start.ssa_to_reg[v], rctx.ncomps[v]) :
           v \in {w \in KilledNow : rctx.classes[w] = cls}}

\* the registers of the destinations of class cls
DestRanges(cls) ==
  UNION {RangeOf(rctx, v) : v \in {w \in Made : rctx.classes[w] = cls}}

\* C18: for an instruction that is neither a SPLIT of a killed source nor a
\* PRELOAD, the bits of every killed source are cleared before pick_regs is
\* called for a destination and none later; a value killed in several
\* slots is freed as if named once; no bit of another value is cleared.
C18_KilledFreedFirst ==
  (pc \in {"walk", "abort"} /\ Ordinary(instr)) =>
    \A cls \in RaClasses :
      /\ rctx.after_free[cls] = rctx.start.used_regs[cls] \ KilledRanges(cls)
      /\ (pc = "walk" /\ ~rctx.evicted) =>
           rctx.used_regs[cls] = rctx.after_free[cls] \cup DestRanges(cls)

\* a value killed in two slots gave its registers to the destination while
\* another value stayed live
C18_Witness ==
  /\ pc = "walk"
  /\ Ordinary(instr)
  /\ Repeats(instr)
  /\ DestRanges("RA_GPR") \cap KilledRanges("RA_GPR") # {}
  /\ live \ Made # {}
  /\ ~rctx.evicted


\* the registers value v had when the last instruction was reached
StartRange(v) == Range(rctx.start.ssa_to_reg[v], rctx.ncomps[v])

\* the general-purpose sources the last instruction killed that were in the
\* way of its eviction: in the window, or where a value of the window went
KilledClobbered ==
  {v \in KilledNow : rctx.classes[v] = "RA_GPR" /\ StartRange(v) \cap rctx.clobbered # {}}

\* every register v had is the source of a copy of the parallel copy
CopiedFromStart(v) ==
  \A r \in StartRange(v) :
    \E n \in 1 .. Len(rctx.pcopies) : \E k \in 1 .. Len(rctx.pcopies[n]) :
      r \in Range(rctx.pcopies[n][k].src, agx_size_align_16(rctx.pcopies[n][k].size))

\* the killed sources in the way are in the window now, copied from where
\* they were
KilledMovedIntoWindow ==
  \A v \in KilledClobbered :
    /\ \E n \in 1 .. Len(rctx.evs) : RangeOf(rctx, v) \subseteq WindowOf(rctx.evs[n])
    /\ CopiedFromStart(v)

\* C19: after the eviction step of an instruction every general-purpose
\* source the instruction kills that has a sub-unit in the destination
\* window, or in a range a relocation of the step overwrites, is re-mapped
\* into the window with a copy from its old place in the same parallel
\* copy, so that the instruction reads the value of each killed source at
\* the register recorded for it.
C19_KilledSourcesRelocated ==
  (pc = "walk" /\ rctx.evs # << >>) =>
    /\ KilledMovedIntoWindow
    /\ \A s \in SsaSrcs(instr) : instr.src[s].kill => s \notin misread

\* the same, for the instructions whose sources are distinct values
KilledSourcesRelocatedWhenDistinct ==
  (pc = "walk" /\ rctx.evs # << >> /\ ~Repeats(instr)) =>
    /\ KilledMovedIntoWindow
    /\ misread = {}

\* the assertions of insert_copies_for_clobbered_killed on the room in the
\* window
RoomAsserts ==
  {"no overflow", "induction", "cannot clobber more than max variable size"}

\* C20: the killed sources insert_copies_for_clobbered_killed collects fit
\* in the destination window (their widths add up to the window size at
\* most), each is placed at a multiple of the size of its scalars, and the
\* assertions "no overflow", "induction" and "cannot clobber more than max
\* variable size" never fail, an instruction that names one killed value in
\* several slots included.
C20_RelocationFits ==
  /\ rctx.abort \notin RoomAsserts
  /\ (pc = "walk" /\ rctx.evs # << >>) =>
       /\ SumOver(Relocated, rctx.ncomps) <= rctx.evs[1].count
       /\ \A v \in Relocated :
            rctx.ssa_to_reg[v] % agx_size_align_16(rctx.sizes[v]) = 0

\* the same, for the instructions whose sources are distinct values
RelocationFitsWhenDistinct ==
  ~Repeats(instr) => C20_RelocationFits

(***************************************************************************)
(* The windows of one eviction step                                        *)
(***************************************************************************)
\* the steps on record: the evictions of the last instruction that
\* returned, and the one find_regs entered last (which may have stopped on
\* an assertion)
EvictionSteps ==
  {[fbs |-> rctx.evs[n].fbs, moves |-> rctx.evs[n].moves,
    copies |-> rctx.evs[n].copies, map |-> rctx.evs[n].map] :
     n \in 1 .. Len(rctx.evs)}
    \cup {[fbs |-> rctx.fbs, moves |-> rctx.moves, copies |-> rctx.copies,
           map |-> rctx.ev.map]}

\* window k of step E lies off the windows chosen before it (the first of
\* them is the destination window) and off every range a value was
\* relocated into before it
WindowsApart(E) ==
  \A k \in 1 .. Len(E.fbs) :
    /\ Range(E.fbs[k].base, E.fbs[k].size) \cap E.fbs[k].evicted = {}
    /\ \A j \in 1 .. (k - 1) :
         Range(E.fbs[k].base, E.fbs[k].size)
           \cap Range(E.fbs[j].base, E.fbs[j].size) = {}

SubUnits(copy) == agx_size_align_16(copy.size)

\* no copy of step E reads a register another copy of E writes
NoCopyReadsWritten(E) ==
  \A i \in 1 .. Len(E.copies) : \A j \in 1 .. Len(E.copies) :
    i # j => Range(E.copies[i].src, SubUnits(E.copies[i]))
               \cap Range(E.copies[j].dest, SubUnits(E.copies[j])) = {}

\* the values evicted from a window in step E are distinct and go to
\* ranges that are disjoint
RehomedApart(E) ==
  \A i \in 1 .. Len(E.moves) : \A j \in 1 .. Len(E.moves) :
    (i # j /\ E.moves[i].evicted /\ E.moves[j].evicted) =>
      /\ E.moves[i].ssa # E.moves[j].ssa
      /\ Range(E.moves[i].to, E.moves[i].nr)
           \cap Range(E.moves[j].to, E.moves[j].nr) = {}

OccupantAsserts ==
  {"must be assigned",
   "variable must start within the range, since vectors are limited",
   "variable is allocated contiguous and vectors are limited, so evicted in full",
   "fully contained in range that's not full"}

\* in step E every search made for an evicted variable is narrower than the
\* window the variable was evicted from, and every evicted variable lay
\* wholly inside its window and was narrower than it
Narrowing(E) ==
  /\ \A k \in 1 .. Len(E.fbs) :
       E.fbs[k].caller # 0 => E.fbs[k].size < E.fbs[k].caller
  /\ \A m \in 1 .. Len(E.moves) :
       E.moves[m].evicted =>
         /\ E.moves[m].nr < E.moves[m].count
         /\ Range(E.moves[m].from, E.moves[m].nr)
              \subseteq Range(E.moves[m].window, E.moves[m].count)

\* C22: the recursive re-homing of assign_regs_by_copying terminates: every
\* value evicted from a window of width count lies wholly in the window and
\* has width nr < count, so every recursive call is made with a strictly
\* smaller width than its caller, and the assertions "fully contained in
\* range that's not full" and "variable must start within the range" never
\* fail.
C22_RehomingNarrows ==
  /\ rctx.abort \notin OccupantAsserts
  /\ \A E \in EvictionSteps : Narrowing(E)

\* a step that returned re-homed a value into a window it had to evict
\* another value from: the recursion went two calls deep
C22_Witness ==
  /\ pc = "walk"
  /\ \E n \in 1 .. Len(rctx.evs) :
       \E i \in 1 .. Len(rctx.evs[n].moves) : \E j \in 1 .. Len(rctx.evs[n].moves) :
         LET a == rctx.evs[n].moves[i]
             b == rctx.evs[n].moves[j]
         IN /\ a.evicted /\ b.evicted
            /\ a.count < b.count
            /\ a.from \in Range(b.to, b.nr)
            /\ a.nr >= 2

(***************************************************************************)
(* The score of find_best_region_to_evict                                  *)
(***************************************************************************)
\* the windows search F could have returned: aligned to the size, inside
\* the file, off r0l, off the ranges relocated into, with a free sub-unit
WindowsOf(F) ==
  {base \in 0 .. (rctx.bound["RA_GPR"] - 1) :
     /\ base % F.size = 0
     /\ base + F.size <= rctx.bound["RA_GPR"]
     /\ ~(base = 0 /\ rctx.any_cf)
     /\ Range(base, F.size) \cap F.evicted = {}
     /\ Range(base, F.size) \ F.used # {}}

\* the homes, when step E began, of the sources the instruction kills
KilledHomes(E) ==
  UNION {Range(E.map[instr.src[s].value], rctx.ncomps[instr.src[s].value]) :
           s \in {t \in SsaSrcs(instr) : instr.src[t].kill}}

\* the homes, when step E began, of all the sources of the instruction
SourceHomes(E) ==
  UNION {Range(E.map[instr.src[s].value], rctx.ncomps[instr.src[s].value]) :
           s \in SsaSrcs(instr)}

\* occupied sub-units of the window plus twice those of it that are in homes
Score(F, base, homes) ==
  Cardinality(Range(base, F.size) \cap F.used)
    + 2 * Cardinality(Range(base, F.size) \cap homes)

\* C23: find_best_region_to_evict scores each candidate window as the
\* number of occupied sub-units in it plus twice the number of its sub-units
\* that are home to a source the instruction is about to kill, rejects
\* every window with no free sub-unit, and returns the candidate with the
\* minimum score.
C23_LeastScoreWithKilled ==
  \A E \in EvictionSteps : \A k \in 1 .. Len(E.fbs) :
    LET F == E.fbs[k] IN
    /\ F.base \in WindowsOf(F)
    /\ \A o \in WindowsOf(F) :
         Score(F, F.base, KilledHomes(E)) <= Score(F, o, KilledHomes(E))

\* what the loop computes: the homes of all the sources of the instruction
\* weigh twice, killed or not
LeastScoreWithSources ==
  \A E \in EvictionSteps : \A k \in 1 .. Len(E.fbs) :
    LET F == E.fbs[k] IN
    /\ F.base \in WindowsOf(F)
    /\ F.killed = SourceHomes(E)
    /\ \A o \in WindowsOf(F) :
         Score(F, F.base, SourceHomes(E)) <= Score(F, o, SourceHomes(E))

(***************************************************************************)
(* The nesting counter r0l                                                 *)
(***************************************************************************)
\* the registers the copies of step E read and write
CopyRegs(E) ==
  UNION {Range(E.copies[k].src, SubUnits(E.copies[k]))
           \cup Range(E.copies[k].dest, SubUnits(E.copies[k])) :
         k \in 1 .. Len(E.copies)}

\* C24: in a program that uses control flow, sub-unit 0 (r0l) is marked
\* occupied for the whole walk of the block, no eviction window of any
\* width contains it, no relocation copy reads or writes it, and no value
\* is ever assigned a range that contains it.
C24_R0lUntouched ==
  (rctx.any_cf /\ pc \in {"walk", "abort"}) =>
    /\ 0 \in rctx.used_regs["RA_GPR"]
    /\ \A E \in EvictionSteps :
         /\ \A k \in 1 .. Len(E.fbs) : 0 \notin Range(E.fbs[k].base, E.fbs[k].size)
         /\ 0 \notin CopyRegs(E)
         /\ \A m \in 1 .. Len(E.moves) : 0 \notin Range(E.moves[m].to, E.moves[m].nr)
    /\ \A v \in rctx.visited :
         rctx.classes[v] = "RA_GPR" => 0 \notin RangeOf(rctx, v)
    /\ \A r \in DOMAIN regfile : regfile[r] # NoVal => r # 0

\* under control flow an eviction returned although the window that holds
\* r0l had a free sub-unit and a lower score than the window returned
C24_Witness ==
  /\ rctx.any_cf
  /\ pc = "walk"
  /\ \E n \in 1 .. Len(rctx.evs) : \E k \in 1 .. Len(rctx.evs[n].fbs) :
       LET F == rctx.evs[n].fbs[k] IN
       /\ Range(0, F.size) \ F.used # {}
       /\ Score(F, 0, F.killed) < Score(F, F.base, F.killed)
       /\ rctx.evs[n].copies # << >>

(***************************************************************************)
(* The SPLIT that kills its source                                         *)
(***************************************************************************)
KilledSplit == instr.op = "SPLIT" /\ instr.src[1].kill

\* the sub-units of destination d of the last SPLIT, counted from register reg
LaneOf(reg, d) ==
  Range(reg + (d - 1) * agx_size_align_16(agx_split_width(instr)),
        agx_size_align_16(agx_split_width(instr)))

\* C25: for a SPLIT whose source is killed, each non-null destination d is
\* assigned exactly source_register + d * width with no search and no copy,
\* and after the instruction every sub-unit of the source's former range
\* that does not belong to a non-null destination (the lanes of null
\* destinations and the excess beyond nr_dests * width) is free.
C25_KilledSplitInPlace ==
  (pc = "walk" /\ KilledSplit) =>
    LET s == instr.src[1].value
        reg == rctx.start.ssa_to_reg[s]
        kept == UNION {LaneOf(reg, d) : d \in SsaDests(instr)}
    IN /\ rctx.hows = << "split" >>
       /\ rctx.pcopies = << >>
       /\ rctx.evs = << >>
       /\ \A d \in SsaDests(instr) :
            /\ RangeOf(rctx, instr.dest[d].value) = LaneOf(reg, d)
            /\ rctx.I.dest[d].type = "register"
            /\ rctx.I.dest[d].value
                 = reg + (d - 1) * agx_size_align_16(agx_split_width(instr))
       /\ rctx.I.src[1].value = reg
       /\ rctx.used_regs["RA_GPR"] \cap (StartRange(s) \ kept) = {}
       /\ kept \subseteq rctx.used_regs["RA_GPR"]
       /\ rctx.used_regs["RA_GPR"] \ StartRange(s)
            = rctx.start.used_regs["RA_GPR"] \ StartRange(s)

\* a killed SPLIT with a null destination between two used ones and fewer
\* destinations than the source's width holds
C25_Witness ==
  /\ pc = "walk"
  /\ KilledSplit
  /\ Len(instr.dest) = 3
  /\ instr.dest[2].type = "null"
  /\ instr.dest[1].type = "normal"
  /\ instr.dest[3].type = "normal"
  /\ rctx.ncomps[instr.src[1].value] = 8
  /\ rctx.start.ssa_to_reg[instr.src[1].value] = 8

(***************************************************************************)
(* PRELOAD anywhere in the entry block                                     *)
(***************************************************************************)
\* the instructions of the entry block
MaxPreInstrs == 3

\* an instruction of the entry block that defines a value from no source
PreDef ==
  /\ pc = "walk"
  /\ block.preds = << >>
  /\ steps < MaxPreInstrs
  /\ steps' = steps + 1
  /\ NextValue(rctx) < MaxValues
  /\ \E sh \in Shapes :
       Alloc([op |-> "ALU", src |-> << >>, dest |-> << NewIdx(NextValue(rctx), sh) >>],
             FALSE, NoPromise)

\* a PRELOAD of any register of the file, wherever the walk stands
PrePreload ==
  /\ pc = "walk"
  /\ block.preds = << >>
  /\ steps < MaxPreInstrs
  /\ steps' = steps + 1
  /\ NextValue(rctx) < MaxValues
  /\ \E size \in {AGX_SIZE_16, AGX_SIZE_32} : \E reg \in 0 .. (max_regs - 1) :
       /\ reg % agx_size_align_16(size) = 0
       /\ Alloc([op |-> "PRELOAD",
                 src |-> << Idx("register", reg, size, 1, FALSE, FALSE) >>,
                 dest |-> << Idx("normal", NextValue(rctx), size, 1, FALSE, FALSE) >>],
                FALSE, NoPromise)

NextPre == ReserveLiveIn \/ PreDef \/ PrePreload

SpecPre == Init /\ [][NextPre]_vars

\* the range the last PRELOAD names
PreloadRange == Range(instr.src[1].value, agx_size_align_16(instr.src[1].size))

\* the range was free when the PRELOAD was reached
PreloadFree == PreloadRange \cap rctx.start.used_regs["RA_GPR"] = {}

\* the destination of the last PRELOAD sits in the register named, found
\* without search and without copy
PreloadedInPlace ==
  /\ pc = "walk"
  /\ rctx.abort = ""
  /\ rctx.ssa_to_reg[instr.dest[1].value] = instr.src[1].value
  /\ rctx.I.dest[1].type = "register"
  /\ rctx.I.dest[1].value = instr.src[1].value
  /\ rctx.hows = << "preload" >>
  /\ rctx.pcopies = << >>
  /\ rctx.evs = << >>
  /\ rctx.used_regs["RA_GPR"] = rctx.start.used_regs["RA_GPR"] \cup PreloadRange
  /\ rctx.ssa_to_reg = [rctx.start.ssa_to_reg EXCEPT
                          ![instr.dest[1].value] = instr.src[1].value]

PhiPred(s) == ctx.input[PhiBlock].preds[s]

\* the first free candidate is the register picked, and a source is skipped
\* while unvisited in a loop header only
FirstFreeTaken(P) ==
  /\ \A t \in P.tried : t.free => (P.how = "phi" /\ P.ret = t.base)
  /\ P.how = "phi" => \E t \in P.tried : t.free
  /\ P.skipped # {} => P.loop_header

\* try_coalesce_with, asked about value v while the allocator stands as
\* it does
AskedFor(v, may_be_unvisited) ==
  try_coalesce_with(rctx,
                    Idx("normal", v, rctx.sizes[v],
                        rctx.ncomps[v] \div agx_size_align_16(rctx.sizes[v]),
                        FALSE, FALSE),
                    rctx.ncomps[v], may_be_unvisited)

Widths == {1, 2, 4, 8}

\* the registers that fit: multiples of align with count free sub-units
\* inside the bound of the class
Fits(used, bound, count, align) ==
  {reg \in 0 .. bound :
     /\ reg % align = 0
     /\ reg + count <= bound
     /\ Range(reg, count) \cap used = {}}

\* the last instruction took the ordinary path with one destination, found
\* by find_regs_simple
FoundSimple ==
  /\ pc = "walk"
  /\ Ordinary(instr)
  /\ rctx.hows = << "simple" >>

\* C28: find_regs_simple returns the lowest register reg that is a multiple
\* of align with reg + count <= bound[class] and no occupied sub-unit in
\* [reg, reg + count); it returns false exactly when no such register
\* exists, and it changes no allocator state.
C28_LowestAlignedFree ==
  /\ \A cls \in RaClasses : \A count \in Widths :
     \A align \in {a \in Widths : a = count \/ 2 * a = count} :
       LET r == find_regs_simple(rctx, cls, count, align)
           fit == Fits(rctx.used_regs[cls], rctx.bound[cls], count, align)
       IN /\ r.found <=> fit # {}
          /\ r.found => (r.reg \in fit /\ \A o \in fit : r.reg <= o)
  /\ FoundSimple =>
       \A v \in Made :
       LET fit == Fits(rctx.after_free["RA_GPR"], rctx.bound["RA_GPR"],
                       rctx.ncomps[v], rctx.ncomps[v])
       IN /\ rctx.ssa_to_reg[v] \in fit
          /\ \A o \in fit : rctx.ssa_to_reg[v] <= o
          /\ rctx.used_regs["RA_GPR"] = rctx.after_free["RA_GPR"] \cup RangeOf(rctx, v)
          /\ rctx.ssa_to_reg = [rctx.start.ssa_to_reg EXCEPT ![v] = rctx.ssa_to_reg[v]]
          /\ rctx.pcopies = << >>
          /\ rctx.evs = << >>

\* a destination was found past a lower free register that its alignment
\* ruled out, in a file where no aligned window of 8 is free although 8
\* sub-units are
C28_Witness ==
  /\ FoundSimple
  /\ \E v \in Made : \E r \in 0 .. (rctx.ssa_to_reg[v] - 1) :
       Range(r, rctx.ncomps[v]) \cap rctx.after_free["RA_GPR"] = {}
  /\ ~find_regs_simple(rctx, "RA_GPR", 8, 8).found
  /\ Cardinality(rctx.used_regs["RA_GPR"]) <= 8

(***************************************************************************)
(* The phis of reserve_live_in                                             *)
(***************************************************************************)
\* the register operand for value v at register reg, of v's size and class
RegisterOf(c, v, reg) ==
  Idx("register", reg, c.sizes[v], 1, FALSE, c.classes[v] = "RA_MEM")

\* c is the allocator after block b (two predecessors, both allocated) was
\* seeded: one phi for each visited live-in value, its destination and range
\* taken from the first predecessor, its operands from each predecessor
SeededWithPhis(c, b) ==
  LET L == {v \in b.live_in : v \in rctx.visited} IN
  /\ c.abort = ""
  /\ Len(c.new_phis) = Cardinality(L)
  /\ \A v \in L :
       /\ \E n \in 1 .. Len(c.new_phis) :
            /\ c.new_phis[n].value = v
            /\ c.new_phis[n].op = "PHI"
            /\ c.new_phis[n].dest = << RegisterOf(c, v, b.preds[1].ssa_to_reg_out[v]) >>
            /\ c.new_phis[n].src =
                 [p \in 1 .. Len(b.preds) |->
                    RegisterOf(c, v, b.preds[p].ssa_to_reg_out[v])]
       /\ c.ssa_to_reg[v] = b.preds[1].ssa_to_reg_out[v]
       /\ Range(b.preds[1].ssa_to_reg_out[v], c.ncomps[v])
            \subseteq c.used_regs[c.classes[v]]
  /\ c.used_regs["RA_GPR"] =
       {0} \cup UNION {Range(b.preds[1].ssa_to_reg_out[v], c.ncomps[v]) : v \in L}

\* C29: when a block with more than one predecessor is seeded, exactly one
\* PHI is inserted at the block start for each already-visited live-in
\* value; its destination is the register the value holds in the first
\* predecessor's exported map, that range is reserved in the block's
\* occupancy, and its operand for every already-processed predecessor p is
\* the register the value holds in p's exported map (with the value's
\* memory/general-purpose class preserved).
C29_LiveInPhis ==
  /\ pc = "cfg_B" => SeededWithPhis(BlockStart(rctx, block), block)
  /\ pc \in {"cfg_lower", "cfg_copies_A", "cfg_copies_P"} =>
       /\ Len(ctx.live_phis) = Cardinality(block.live_in)
       /\ \A n \in 1 .. Len(ctx.live_phis) :
            /\ ctx.progB[n].op = "PHI"
            /\ ctx.progB[n].dest = ctx.live_phis[n].dest
            /\ ctx.progB[n].src = ctx.live_phis[n].src
       /\ \A v \in block.live_in : \E n \in 1 .. Len(ctx.live_phis) :
            /\ ctx.live_phis[n].value = v
            /\ ctx.live_phis[n].dest[1].value = ctx.outA[v]
            /\ ctx.live_phis[n].src[1].value = ctx.outA[v]
            /\ ctx.live_phis[n].src[2].value = ctx.outP[v]
            /\ ctx.live_phis[n].src[2].type = "register"

\* a block was allocated whose two live-in values of different sizes sit in
\* different registers at the end of its two predecessors
C29_Witness ==
  /\ pc = "cfg_lower"
  /\ Cardinality(block.live_in) = 2
  /\ \A v \in block.live_in : ctx.outA[v] # ctx.outP[v]
  /\ \E v \in block.live_in : \E w \in block.live_in : rctx.sizes[v] # rctx.sizes[w]

(***************************************************************************)
(* The phi operands of a back edge                                         *)
(***************************************************************************)
\* agx_ra runs to its end: every loop over the blocks takes its next step
SpecBlkFair == SpecBlk /\ WF_vars(NextBlk)

\* the back-edge predecessor of the loop header, and its slot in the phis
BackEdge == ctx.input[PhiBlock].preds[2]

\* the phis that now stand in block k
PhisOf(k) == SelectSeq(ctx.blocks[k].prog, IsPhi)

\* the phi operands of block k that are SSA references
SsaOperands(k) ==
  {<< n, p >> \in (1 .. Len(PhisOf(k))) \X (1 .. 2) :
     Len(PhisOf(k)[n].src) >= p /\ PhisOf(k)[n].src[p].type = "normal"}

\* the values whose phis in the loop header wait for the back edge: the
\* visited live-in values, and the back-edge source of the header's own phi
Awaited ==
  ctx.input[PhiBlock].live_in
    \cup {ctx.input[PhiBlock].prog[1].src[2].value}

\* the loop header has been seeded and allocated, its back-edge predecessor
\* has not, and phi operands of the header wait as SSA references
HeaderWaits ==
  /\ ctx.input[PhiBlock].loop_header
  /\ pc = "blk_assign"
  /\ Allocated(PhiBlock)
  /\ ~Allocated(BackEdge)
  /\ {op[2] : op \in SsaOperands(PhiBlock)} = {2}
  /\ {PhisOf(PhiBlock)[op[1]].src[2].value : op \in SsaOperands(PhiBlock)} = Awaited

\* the back-edge operand of every phi of the header is a register, and for
\* every awaited value it is the register the value holds in the final map
\* of the back-edge predecessor
BackEdgeResolved ==
  /\ Allocated(BackEdge)
  /\ SsaOperands(PhiBlock) = {}
  /\ Len(PhisOf(PhiBlock)) = Cardinality(ctx.input[PhiBlock].live_in) + 1
  /\ \A v \in Awaited : \E n \in 1 .. Len(PhisOf(PhiBlock)) :
       /\ PhisOf(PhiBlock)[n].src[2].type = "register"
       /\ PhisOf(PhiBlock)[n].src[2].value = ctx.outs[BackEdge][v]
       /\ \/ v \in ctx.input[PhiBlock].live_in
             /\ PhisOf(PhiBlock)[n].dest[1].value
                  = ctx.outs[ctx.input[PhiBlock].preds[1]][v]
          \/ n = Len(PhisOf(PhiBlock))

\* every block has been allocated
AllAllocated == pc \in {"blk_lower", "blk_copies", "blk_remove", "returned"}

\* C30: every phi operand left as an unresolved SSA reference when a loop
\* header is seeded before its back-edge predecessor is processed is later
\* replaced, when that predecessor finishes its allocation, by the register
\* the value holds in that predecessor's final map; once all blocks are
\* allocated no phi operand in any block is still an SSA reference.
C30_BackEdgeFixup ==
  /\ HeaderWaits ~> BackEdgeResolved
  /\ [](ctx.input[PhiBlock].loop_header /\ Allocated(BackEdge) /\ pc # "returned"
          /\ pc # "blk_remove"
          => BackEdgeResolved)
  /\ [](AllAllocated => \A k \in 1 .. Len(ctx.blocks) : SsaOperands(k) = {})

\* a loop was allocated in which a live-in value and the header's own phi
\* both waited for the back edge, and the value defined in the loop ended in
\* a register other than the one the phi has
C30_Witness ==
  /\ pc = "blk_lower"
  /\ BackEdgeResolved
  /\ ctx.input[PhiBlock].live_in # {}
  /\ ctx.input[PhiBlock].prog[1].src[2].value = 2
  /\ Len(PhisOf(PhiBlock)) = 2
  /\ PhisOf(PhiBlock)[2].src[2].value >= 1

(***************************************************************************)
(* The parallel copies at the end of a block                               *)
(***************************************************************************)
\* agx_insert_parallel_copies has run for block k and the phis still stand
Copied(k) == pc = "blk_remove" \/ (pc = "blk_copies" /\ k < ctx.next)

\* the successors of block k that hold phis
PhiSuccs(k) ==
  {s \in 1 .. Len(ctx.blocks) :
     /\ \E i \in 1 .. Len(ctx.blocks[k].succs) : ctx.blocks[k].succs[i] = s
     /\ PhisOf(s) # << >>}

\* the entry of the parallel copy that stands for phi on the edge from the
\* predecessor in slot p
EntryFor(phi, p) ==
  [dest |-> phi.dest[1].value,
   dest_mem |-> phi.dest[1].memory,
   src |-> IF phi.src[p].type = "immediate"
             THEN Idx("immediate", phi.src[p].value, phi.dest[1].size,
                      phi.src[p].channels, phi.src[p].kill, phi.src[p].memory)
             ELSE phi.src[p]]

\* C31: for each block that has a successor containing phis,
\* agx_insert_parallel_copies builds exactly one parallel copy at the
\* logical end of the block with exactly one entry per phi of that
\* successor: destination = the phi's destination register (with its
\* memory class), source = the phi's operand in the slot of this block (an
\* immediate source taking the destination's size); a block with no
\* phi-bearing successor gets no parallel copy.
C31_OneCopyPerPhi ==
  /\ ctx.abort \notin {"dest.type == AGX_INDEX_REGISTER", "dest.size == src.size"}
  /\ \A k \in 1 .. Len(ctx.blocks) :
       Copied(k) =>
         IF PhiSuccs(k) = {}
           THEN /\ ctx.pcopies[k].calls = << >>
                /\ ctx.blocks[k].prog = ctx.pcopies[k].before
           ELSE \E s \in PhiSuccs(k) :
                  /\ PhiSuccs(k) = {s}
                  /\ \A n \in 1 .. Len(PhisOf(s)) :
                       PhisOf(s)[n].dest[1].type = "register"
                  /\ ctx.pcopies[k].calls =
                       << [n \in 1 .. Len(PhisOf(s)) |->
                             EntryFor(PhisOf(s)[n], PredIndex(ctx.blocks[s], k))] >>
                  /\ ctx.blocks[k].prog =
                       ctx.pcopies[k].before
                         \o agx_emit_parallel_copies(ctx.pcopies[k].calls[1])

\* a block ended with one parallel copy of two entries, for a phi of
\* live-in seeding and for a phi with an immediate operand that took the
\* 32-bit size of its destination and was written at the end of the block,
\* while its sibling got the copy of the defined value
C31_Witness ==
  /\ pc = "blk_remove"
  /\ \E k \in 1 .. Len(ctx.blocks) : \E j \in 1 .. Len(ctx.blocks) :
       /\ k # j
       /\ Len(ctx.pcopies[k].calls) = 1
       /\ Len(ctx.pcopies[k].calls[1]) = 2
       /\ \E n \in 1 .. 2 :
            /\ ctx.pcopies[k].calls[1][n].src.type = "immediate"
            /\ ctx.pcopies[k].calls[1][n].src.size = AGX_SIZE_32
       /\ Len(ctx.pcopies[j].calls) = 1
       /\ \E n \in 1 .. 2 : ctx.pcopies[j].calls[1][n].src.type = "register"
       /\ ctx.blocks[k].prog[Len(ctx.blocks[k].prog)].op = "PCOPY"
       /\ \E i \in 1 .. Len(ctx.blocks) : ctx.pcopies[i].calls = << >>

(***************************************************************************)
(* Critical edges                                                          *)
(***************************************************************************)
\* block k has several successors and one of them holds a phi
Critical(k) == Len(ctx.blocks[k].succs) > 1 /\ PhiSuccs(k) # {}

\* block b has several predecessors and a phi, its own or one of live-in
\* seeding
Merges(b) ==
  /\ Len(ctx.input[b].preds) > 1
  /\ \/ \E i \in 1 .. Len(ctx.input[b].prog) : ctx.input[b].prog[i].op = "PHI"
     \/ ctx.input[b].live_in \cap rctx.visited # {}

\* C32: if a block has more than one successor and any of its successors
\* contains a phi (a critical edge), agx_insert_parallel_copies aborts on
\* the "control flow graph has a critical edge" assertion, whatever the
\* order of the successors; since live-in seeding inserts a phi into every
\* multi-predecessor block with a visited live-in value, allocation
\* completes only when every predecessor of such a block has that block as
\* its single successor.
C32_CriticalEdgeAborts ==
  /\ \A k \in 1 .. Len(ctx.blocks) : Copied(k) => ~Critical(k)
  /\ pc = "abort" =>
       /\ ctx.abort = "control flow graph has a critical edge"
       /\ Critical(ctx.next)
       /\ \A k \in 1 .. (ctx.next - 1) : ~Critical(k)
  /\ \A b \in 1 .. Len(ctx.blocks) :
       /\ (pc \in {"blk_lower", "blk_copies"} /\ Merges(b)) => PhisOf(b) # << >>
       /\ (pc \in {"blk_remove", "returned"} /\ Merges(b)) =>
            \A p \in 1 .. Len(ctx.input[b].preds) :
              ctx.input[ctx.input[b].preds[p]].succs = << b >>

\* the allocation stopped at a branch whose second successor has no phi of
\* its own in the program, only the phi of a live-in value
C32_Witness ==
  /\ pc = "abort"
  /\ ctx.abort = "control flow graph has a critical edge"
  /\ ctx.input[ctx.next].succs = << 2, 3 >>
  /\ \A i \in 1 .. Len(ctx.input[3].prog) : ctx.input[3].prog[i].op # "PHI"
  /\ Len(PhisOf(3)) = 1
  /\ PhisOf(2) = << >>

(***************************************************************************)
(* The lowering of COLLECT and SPLIT                                       *)
(***************************************************************************)
\* the entries of seq, in order, that are not none
RECURSIVE Present(_, _)
Present(seq, none) ==
  IF seq = << >> THEN << >>
  ELSE (IF Head(seq) = none THEN << >> ELSE << Head(seq) >>)
         \o Present(Tail(seq), none)

\* the copies that stand for an allocated COLLECT: source i goes to the
\* destination's base + i * the width of a source
CollectCopies(I) ==
  Present([i \in 1 .. Len(I.src) |->
             IF I.src[i].type = "null" THEN agx_null
             ELSE [dest |-> I.dest[1].value
                              + (i - 1) * agx_size_align_16(I.src[1].size),
                   dest_mem |-> FALSE,
                   src |-> I.src[i]]],
          agx_null)

\* the copies that stand for an allocated SPLIT: the register destination i
\* is read from the source's base + i * the width of a destination
SplitCopies(I) ==
  Present([i \in 1 .. Len(I.dest) |->
             IF I.dest[i].type # "register" THEN agx_null
             ELSE [dest |-> I.dest[i].value,
                   dest_mem |-> FALSE,
                   src |-> Idx(I.src[1].type,
                               I.src[1].value
                                 + (i - 1) * agx_size_align_16(I.dest[i].size),
                               I.dest[i].size, 1, I.src[1].kill,
                               I.src[1].memory)]],
          agx_null)

\* the block prog with each COLLECT and SPLIT replaced, where it stands, by
\* the parallel copy of its copies
RECURSIVE Lowered(_)
Lowered(prog) ==
  IF prog = << >> THEN << >>
  ELSE (IF Head(prog).op = "COLLECT"
          THEN agx_emit_parallel_copies(CollectCopies(Head(prog)))
        ELSE IF Head(prog).op = "SPLIT"
          THEN agx_emit_parallel_copies(SplitCopies(Head(prog)))
        ELSE << Head(prog) >>)
         \o Lowered(Tail(prog))

HasOp(k, ops) == \E i \in 1 .. Len(ctx.blocks[k].prog) : ctx.blocks[k].prog[i].op \in ops

\* C33: after per-block allocation every COLLECT is replaced, at its
\* position, by one parallel copy that writes source i to destination_base
\* + i*source_width for each non-null, non-undefined source, and every SPLIT
\* by one parallel copy that writes source_base + i*width to the register of
\* each register destination i; the pseudo-instruction is then deleted, and
\* when agx_ra returns no COLLECT, SPLIT, PHI or PRELOAD instruction remains
\* in the program.
C33_PseudoLowered ==
  /\ [][(pc = "blk_lower" /\ pc' = "blk_copies") =>
          \A k \in 1 .. Len(ctx.blocks) :
            ctx'.blocks[k].prog = Lowered(ctx.blocks[k].prog)]_vars
  /\ [](\A k \in 1 .. Len(ctx.blocks) :
          /\ pc \in {"blk_copies", "blk_remove", "returned"} =>
               ~HasOp(k, {"COLLECT", "SPLIT"})
          /\ pc = "returned" => ~HasOp(k, {"COLLECT", "SPLIT", "PHI", "PRELOAD"}))

\* agx_ra returned a program that had a COLLECT with a null source between
\* two sources that lived on: where it stood is a parallel copy of two
\* entries that writes the destination's base and the second register pair
\* after it, and the PRELOAD-free, phi-free blocks are what is left
C33_Witness ==
  /\ pc = "returned"
  /\ \E i \in 1 .. Len(ctx.input[1].prog) :
       /\ ctx.input[1].prog[i].op = "COLLECT"
       /\ Len(ctx.input[1].prog[i].src) = 3
       /\ ctx.input[1].prog[i].src[1].size = AGX_SIZE_32
  /\ \E j \in 1 .. Len(ctx.blocks[1].prog) :
       LET I == ctx.blocks[1].prog[j] IN
       /\ I.op = "PCOPY"
       /\ Len(I.dest) = 2
       /\ I.dest[1].value = ctx.outs[1][6]
       /\ I.dest[2].value = ctx.outs[1][6] + 4
       /\ I.src[1].value = ctx.outs[1][4]
       /\ I.src[2].value = ctx.outs[1][5]
  /\ \E k \in 1 .. Len(ctx.input) : \E i \in 1 .. Len(ctx.input[k].prog) :
       ctx.input[k].prog[i].op = "PHI"

(***************************************************************************)
(* agx_spill_everything over the blocks of a program                       *)
(***************************************************************************)
\* (variant: only immediates are taken out of the phis)
RECURSIVE PhiSrcLoop_ImmediateOnly(_, _, _, _)
PhiSrcLoop_ImmediateOnly(st, k, i, s) ==
  IF k > Len(st.blocks) THEN st
  ELSE IF i > Len(st.blocks[k].prog) THEN PhiSrcLoop_ImmediateOnly(st, k + 1, 1, 1)
  ELSE IF st.blocks[k].prog[i].op # "PHI" \/ s > Len(st.blocks[k].prog[i].src)
    THEN PhiSrcLoop_ImmediateOnly(st, k, i + 1, 1)
  ELSE
    LET phi == st.blocks[k].prog[i]
        pred == st.blocks[k].preds[s]
        temp == Idx("normal", st.alloc, phi.dest[1].size, 1, FALSE, FALSE)
    IN
    IF phi.src[s].type = "immediate"
      THEN PhiSrcLoop_ImmediateOnly(
             [blocks |-> [st.blocks EXCEPT
                            ![pred].prog = Append(@, Mov(temp, phi.src[s])),
                            ![k].prog[i].src[s] = temp],
              alloc |-> st.alloc + 1],
             k, i, s + 1)
      ELSE PhiSrcLoop_ImmediateOnly(st, k, i, s + 1)

\* the first loop of agx_spill_everything, at source s of instruction i of
\* block k: an immediate or uniform source of a phi is moved into a fresh
\* value (agx_temp) at the end of the predecessor the source belongs to;
\* st is [blocks, alloc]
RECURSIVE PhiSrcLoop(_, _, _, _)
PhiSrcLoop(st, k, i, s) ==
  IF k > Len(st.blocks) THEN st
  ELSE IF i > Len(st.blocks[k].prog) THEN PhiSrcLoop(st, k + 1, 1, 1)
  ELSE IF st.blocks[k].prog[i].op # "PHI" \/ s > Len(st.blocks[k].prog[i].src)
    THEN PhiSrcLoop(st, k, i + 1, 1)
  ELSE
    LET phi == st.blocks[k].prog[i]
        pred == st.blocks[k].preds[s]
        temp == Idx("normal", st.alloc, phi.dest[1].size, 1, FALSE, FALSE)
    IN
    IF phi.src[s].type \in {"immediate", "uniform"}
      THEN PhiSrcLoop(
             [blocks |-> [st.blocks EXCEPT
                            ![pred].prog = Append(@, Mov(temp, phi.src[s])),
                            ![k].prog[i].src[s] = temp],
              alloc |-> st.alloc + 1],
             k, i, s + 1)
      ELSE PhiSrcLoop(st, k, i, s + 1)

\* the second loop of agx_spill_everything, from block k on
RECURSIVE SpillBlocks(_, _, _)
SpillBlocks(st, k, mem_base) ==
  IF k > Len(st.blocks) THEN st
  ELSE
    LET r == SpillLoop([prog |-> << >>, alloc |-> st.alloc],
                       st.blocks[k].prog, 1, mem_base)
    IN SpillBlocks([blocks |-> [st.blocks EXCEPT ![k].prog = r.prog],
                    alloc |-> r.alloc],
                   k + 1, mem_base)

\* the first source of the phis of blocks, when an immediate, made a uniform
AsUniform(blocks) ==
  [k \in 1 .. Len(blocks) |->
     [blocks[k] EXCEPT !.prog =
        [i \in 1 .. Len(@) |->
           IF @[i].op = "PHI" /\ @[i].src[1].type = "immediate"
             THEN [@[i] EXCEPT !.src[1].type = "uniform", !.src[1].value = 3]
             ELSE @[i]]]]

\* the second source of the phis of blocks made an immediate
BothConstant(blocks) ==
  [k \in 1 .. Len(blocks) |->
     [blocks[k] EXCEPT !.prog =
        [i \in 1 .. Len(@) |->
           IF @[i].op = "PHI"
             THEN [@[i] EXCEPT !.src[2] = Idx("immediate", 1, AGX_SIZE_16, 1,
                                              FALSE, FALSE)]
             ELSE @[i]]]]

\* agx_ra is about to spill one of the branch programs, whose values number
\* alloc
SpillInit ==
  /\ \E sh \in CfgShapes : \E sh1 \in Shapes : \E keep \in BOOLEAN :
     \E own \in BOOLEAN : \E imm \in BOOLEAN : \E uni \in BOOLEAN :
     \E both \in BOOLEAN : \E kind \in PseudoKinds : \E kill \in BOOLEAN :
       LET edge == Edge(sh, sh1, keep, own, imm, FALSE, FALSE,
                        Pseudo(kind, sh, kill))
           cons == IF uni THEN AsUniform(edge) ELSE edge
           blocks == IF both THEN BothConstant(cons) ELSE cons
       IN /\ imm => own
          /\ uni => imm
          /\ both => imm
          /\ kind \in {"none", "preload"} => kill
          /\ ctx = [blocks |-> blocks, input |-> blocks, lowered |-> blocks,
                    alloc |-> Cardinality(EdgeIds), alloc0 |-> Cardinality(EdgeIds),
                    mem_base |-> 0, abort |-> ""]
  /\ rctx = NewCtx(TRUE, EdgeIds, max_regs, NumMemRegs)
  /\ block = [preds |-> << >>, live_in |-> {}, loop_header |-> FALSE,
              ssa_to_reg_out |-> [v \in Values |-> 0]]
  /\ instr = NoInstr
  /\ live = {}
  /\ regfile = [r \in 0 .. (max_regs - 1) |-> NoVal]
  /\ misread = {}
  /\ est = EmptyEst
  /\ steps = 0
  /\ pc = "spill_phis"

\* "Immediates and uniforms are not allowed to be spilled, so they cannot
\* appear in phi webs.  Lower them first."
SpillPhis ==
  /\ pc = "spill_phis"
  /\ \E st \in { PhiSrcLoop([blocks |-> ctx.blocks, alloc |-> ctx.alloc], 1, 1, 1) } :
       ctx' = [ctx EXCEPT !.blocks = st.blocks, !.lowered = st.blocks,
                          !.alloc = st.alloc]
  /\ pc' = "spill_all"
  /\ UNCHANGED << rctx, block, instr, live, regfile, misread, est, steps >>

\* "Now we can spill everything"
SpillAll ==
  /\ pc = "spill_all"
  /\ \E mem_base \in { ctx.alloc } :
     \E st \in { SpillBlocks([blocks |-> ctx.blocks, alloc |-> mem_base + ctx.alloc],
                             1, mem_base) } :
       ctx' = [ctx EXCEPT !.blocks = st.blocks, !.alloc = st.alloc,
                          !.mem_base = mem_base]
  /\ pc' = "spilled"
  /\ UNCHANGED << rctx, block, instr, live, regfile, misread, est, steps >>

NextSpill == SpillPhis \/ SpillAll

SpecSpill == SpillInit /\ [][NextSpill]_vars

(***************************************************************************)
(* The phis of a spilled program                                           *)
(***************************************************************************)
\* the phis of block k before the spilling
InPhis(k) == SelectSeq(ctx.input[k].prog, IsPhi)

\* the constant operands of the phis before the spilling: block, phi, slot
ConstSrcs ==
  {t \in (1 .. Len(ctx.input)) \X (1 .. 2) \X (1 .. 2) :
     /\ t[2] <= Len(InPhis(t[1]))
     /\ t[3] <= Len(InPhis(t[1])[t[2]].src)
     /\ InPhis(t[1])[t[2]].src[t[3]].type \in {"immediate", "uniform"}}

\* the memory shadow of value idx when the shadows start at base
Shadow(idx, base) ==
  Idx("normal", idx.value + base, idx.size, idx.channels, idx.kill, TRUE)

\* a move that defines temp from the constant con stands at the end of
\* block k: behind it are only its store and moves of its kind
MovedAtEnd(k, temp, con) ==
  \E j \in 1 .. Len(ctx.blocks[k].prog) :
    /\ ctx.blocks[k].prog[j] = Mov(temp, con)
    /\ \A m \in (j + 1) .. Len(ctx.blocks[k].prog) :
         /\ ctx.blocks[k].prog[m].op = "MOV"
         /\ ctx.blocks[k].prog[m].dest[1].value >= ctx.alloc0

\* after agx_spill_everything no phi has a constant operand, each was
\* replaced by a fresh value moved at the end of the predecessor, and the
\* phis name the shadows, which start at base
PhiShadows(base) ==
  pc = "spilled" =>
    /\ \A k \in 1 .. Len(ctx.blocks) :
         /\ Len(PhisOf(k)) = Len(InPhis(k))
         /\ \A n \in 1 .. Len(PhisOf(k)) :
              LET was == InPhis(k)[n]
                  now == PhisOf(k)[n]
              IN /\ now.dest = << Shadow(was.dest[1], base) >>
                 /\ Len(now.src) = Len(was.src)
                 /\ \A t \in 1 .. Len(was.src) :
                      /\ now.src[t].type = "normal"
                      /\ now.src[t].memory
                      /\ was.src[t].type = "normal" =>
                           now.src[t] = Shadow(was.src[t], base)
                      /\ was.src[t].type # "normal" =>
                           \E id \in ctx.alloc0 .. (ctx.alloc0 + Cardinality(ConstSrcs) - 1) :
                             LET temp == Idx("normal", id, was.dest[1].size, 1,
                                             FALSE, FALSE)
                             IN /\ now.src[t] = Shadow(temp, base)
                                /\ MovedAtEnd(ctx.input[k].preds[t], temp, was.src[t])
    /\ Cardinality({PhisOf(t[1])[t[2]].src[t[3]].value : t \in ConstSrcs})
         = Cardinality(ConstSrcs)

\* C34: after agx_spill_everything, no PHI has an immediate or uniform
\* operand: each such operand was replaced by a fresh temporary defined by
\* a move placed at the logical end of the predecessor block of that
\* operand slot; and the destination and every SSA operand of every PHI is
\* the memory-class shadow (id = original id + original value count) of
\* the original value.
C34_ShadowsAtValueCount == PhiShadows(ctx.alloc0)

\* C34, amended: the shadow of a value is its id + the value count as it
\* stands after the temporaries of the constant operands were made
C34_ShadowsAboveTemporaries == PhiShadows(ctx.alloc0 + Cardinality(ConstSrcs))

\* a program was spilled whose phi had a uniform and an immediate operand
\* and a 32-bit destination
C34_Witness ==
  /\ pc = "spilled"
  /\ \E k \in 1 .. Len(ctx.input) :
       /\ Len(InPhis(k)) = 1
       /\ InPhis(k)[1].src[1].type = "uniform"
       /\ InPhis(k)[1].src[2].type = "immediate"
       /\ InPhis(k)[1].dest[1].size = AGX_SIZE_32
       /\ PhisOf(k)[1].src[1].value # PhisOf(k)[1].src[2].value
  /\ ctx.mem_base = ctx.alloc0 + 2

(***************************************************************************)
(* The loads and stores of a spilled program                               *)
(***************************************************************************)
\* the loads and the stores agx_spill_everything owes instruction I
NLoads(I) == IF I.op = "PHI" THEN 0 ELSE Cardinality(SsaSrcs(I))
NStores(I) == IF I.op = "PHI" THEN 0 ELSE Cardinality(SsaDests(I))

\* the instructions that stand for the first n instructions of prog
RECURSIVE SpilledLen(_, _)
SpilledLen(prog, n) ==
  IF n = 0 THEN 0
  ELSE SpilledLen(prog, n - 1) + NLoads(prog[n]) + 1 + NStores(prog[n])

\* where instruction i of prog stands after the spilling
SpilledAt(prog, i) == SpilledLen(prog, i - 1) + NLoads(prog[i]) + 1

\* the fresh values the loads of block k define
FillIds(k) ==
  UNION { {ctx.blocks[k].prog[SpilledAt(ctx.lowered[k].prog, i)].src[t].value :
             t \in SsaSrcs(ctx.lowered[k].prog[i])} :
          i \in {j \in 1 .. Len(ctx.lowered[k].prog) :
                   ctx.lowered[k].prog[j].op # "PHI"} }

\* block k after the spilling: every instruction that is not a phi stands
\* between its loads, one per SSA source slot in the order of the slots,
\* and its stores, one per SSA destination
LoadsAndStores(k) ==
  LET mid == ctx.lowered[k].prog
      out == ctx.blocks[k].prog
  IN /\ Len(out) = SpilledLen(mid, Len(mid))
     /\ \A i \in 1 .. Len(mid) :
          LET I == mid[i]
              q == SpilledAt(mid, i)
              J == out[q]
              slots == SortedSeq(SsaSrcs(I))
          IN I.op # "PHI" =>
               /\ J.op = I.op
               /\ J.dest = I.dest
               /\ Len(J.src) = Len(I.src)
               /\ \A t \in 1 .. Len(I.src) :
                    I.src[t].type # "normal" => J.src[t] = I.src[t]
               /\ \A m \in 1 .. Len(slots) :
                    LET t == slots[m]
                        L == out[q - Len(slots) + m - 1]
                    IN /\ L = Mov(J.src[t], Shadow(I.src[t], ctx.mem_base))
                       /\ J.src[t] = Idx("normal", J.src[t].value, I.src[t].size,
                                         I.src[t].channels, FALSE, FALSE)
                       /\ J.src[t].value >= 2 * ctx.mem_base
                       /\ J.src[t].value < ctx.alloc
               /\ {out[q + m] : m \in 1 .. NStores(I)}
                    = {Mov(Shadow(I.dest[d], ctx.mem_base), I.dest[d]) :
                         d \in SsaDests(I)}

\* all the loads of the spilled program
AllLoads ==
  SumOver(1 .. Len(ctx.lowered),
          [k \in 1 .. Len(ctx.lowered) |->
             SpilledLen(ctx.lowered[k].prog, Len(ctx.lowered[k].prog))
               - Len(ctx.lowered[k].prog)
               - SumOver(1 .. Len(ctx.lowered[k].prog),
                         [i \in 1 .. Len(ctx.lowered[k].prog) |->
                            NStores(ctx.lowered[k].prog[i])])])

\* the loads take distinct fresh values
FreshFills ==
  /\ \A k \in 1 .. Len(ctx.blocks) : \A j \in 1 .. Len(ctx.blocks) :
       k # j => FillIds(k) \cap FillIds(j) = {}
  /\ SumOver(1 .. Len(ctx.blocks),
             [k \in 1 .. Len(ctx.blocks) |-> Cardinality(FillIds(k))]) = AllLoads

\* C35: after agx_spill_everything, every non-PHI instruction of the
\* original program (including the moves materialised for phi operands) is
\* immediately preceded by one load per SSA source slot, from the source's
\* memory shadow into a fresh temporary that replaces the source, and
\* immediately followed by one store per SSA destination into the
\* destination's memory shadow; the value-id space is exactly doubled, and
\* the inserted loads and stores are not themselves spilled again.
C35_LoadsStoresDoubled ==
  pc = "spilled" =>
    /\ \A k \in 1 .. Len(ctx.blocks) : LoadsAndStores(k)
    /\ FreshFills
    /\ ctx.alloc = 2 * ctx.alloc0

\* C35, amended: the shadows take the ids from the value count (the
\* temporaries of the phi operands included) to twice that count, and
\* every load takes one more id above them
C35_LoadsStoresAboveShadows ==
  pc = "spilled" =>
    /\ \A k \in 1 .. Len(ctx.blocks) : LoadsAndStores(k)
    /\ FreshFills
    /\ ctx.mem_base = ctx.alloc0 + Cardinality(ConstSrcs)
    /\ ctx.alloc = 2 * ctx.mem_base + AllLoads

\* a program was spilled that had a COLLECT of two values, a move made for
\* an immediate operand of a phi, and an instruction of three sources
C35_Witness ==
  /\ pc = "spilled"
  /\ \E i \in 1 .. Len(ctx.lowered[1].prog) :
       /\ ctx.lowered[1].prog[i].op = "COLLECT"
       /\ NLoads(ctx.lowered[1].prog[i]) = 2
       /\ NLoads(ctx.lowered[1].prog[i + 1]) = 3
  /\ \E k \in 1 .. Len(ctx.lowered) :
       LET last == ctx.lowered[k].prog[Len(ctx.lowered[k].prog)] IN
       /\ Len(ctx.lowered[k].prog) > Len(ctx.input[k].prog)
       /\ last.op = "MOV"
       /\ last.src[1].type = "immediate"
       /\ ctx.blocks[k].prog[Len(ctx.blocks[k].prog)]
            = Mov(Shadow(last.dest[1], ctx.mem_base), last.dest[1])
  /\ AllLoads >= 7

(***************************************************************************)
(* The values carried over a control-flow edge                             *)
(***************************************************************************)
\* the register file at the end of block p, the values of S where the map p
\* ends with has them
EdgeFile(p, S) ==
  [r \in 0 .. (max_regs - 1) |->
     LET at == {v \in S : r \in Range(ctx.outs[p][v], rctx.ncomps[v])}
     IN IF at = {} THEN NoVal
        ELSE LET v == CHOOSE x \in at : TRUE IN << v, r - ctx.outs[p][v] >>]

\* what agx_insert_parallel_copies put at the end of block p
EndCopies(p) ==
  SubSeq(ctx.blocks[p].prog, Len(ctx.pcopies[p].before) + 1, Len(ctx.blocks[p].prog))

\* the values that cross the edge into b from its predecessor in slot i:
\* those live into b and the source of b's phi in that slot
Crossing(b, i) ==
  ctx.input[b].live_in
    \cup {InPhis(b)[n].src[i].value : n \in 1 .. Len(InPhis(b))}

\* C36: for every CFG edge p -> b and every already-visited value v live-in
\* to b, the register in which b expects v at its entry holds v's value
\* when control arrives from p: either it is the register v holds in p's
\* exported map (single-predecessor b, or p is b's first predecessor), or
\* the parallel copy at the end of p copies v from the register it holds in
\* p's exported map into it; this holds also when v was relocated by
\* eviction inside p or inside the loop body before a back edge.
C36_LiveInArrives ==
  pc \in {"blk_remove", "returned"} =>
    \A b \in 1 .. Len(ctx.blocks) : \A i \in 1 .. Len(ctx.input[b].preds) :
    \A v \in ctx.input[b].live_in :
      LET p == ctx.input[b].preds[i]
          expected == ctx.ins[b][v]
          exported == ctx.outs[p][v]
      IN /\ Holds(RunCopies(EdgeFile(p, Crossing(b, i)), EndCopies(p)),
                  v, expected, rctx.ncomps[v])
         /\ (Len(ctx.input[b].preds) = 1 \/ i = 1) => expected = exported
         /\ expected # exported =>
              /\ Len(ctx.pcopies[p].calls) = 1
              /\ \E n \in 1 .. Len(ctx.pcopies[p].calls[1]) :
                   /\ ctx.pcopies[p].calls[1][n].dest = expected
                   /\ ctx.pcopies[p].calls[1][n].src.type = "register"
                   /\ ctx.pcopies[p].calls[1][n].src.value = exported

\* the block agx_ra_assign_local ran for last (0: none yet), whose seeded
\* phis rctx.new_phis holds
SeededBlock ==
  IF pc = "blk_assign" THEN ctx.next - 1 ELSE Len(ctx.blocks)

SizingAsserts ==
  {"Invariant", "occupancy limits aligned", "space for vertex shader preloading"}

\* reg_file_alignment of the program as allocated
FileAlignment == MAX2(MaxNcomps(rctx), 8)

\* the bound handed to the allocation of the block is sized as agx_ra
\* asserts it
FileSized ==
  pc = "done" =>
    /\ FileAlignment >= 8
    /\ util_next_power_of_two(FileAlignment) = FileAlignment
    /\ \A v \in rctx.visited : rctx.ncomps[v] <= FileAlignment
    /\ rctx.bound["RA_GPR"] % FileAlignment = 0
    /\ rctx.bound["RA_GPR"] >= 12
    /\ rctx.bound["RA_GPR"] <= ctx.max_possible_regs
    /\ rctx.bound["RA_GPR"] >= ALIGN_POT(ctx.effective_demand, FileAlignment)

NpotIds == 0 .. 3

NpotShapes ==
  { [size |-> AGX_SIZE_16, channels |-> 1],
    [size |-> AGX_SIZE_32, channels |-> 1],
    [size |-> AGX_SIZE_16, channels |-> 3],
    [size |-> AGX_SIZE_32, channels |-> 3],
    [size |-> AGX_SIZE_32, channels |-> 4] }

\* values 0 to 2 defined with the shapes shs, those of dying read by one
\* instruction, value 3 defined last
Packed(shs, dying, last) ==
  LET reads == SortedSeq(dying) IN
  << Blk(<< >>, << >>, FALSE, {},
         [v \in 1 .. 3 |-> BlkDef(v - 1, shs[v], << >>)]
           \o (IF dying = {} THEN << >>
               ELSE << BlkUse([k \in 1 .. Len(reads) |->
                                 BlkIdx(reads[k], shs[reads[k] + 1], TRUE)]) >>)
           \o << BlkDef(3, last, << >>) >>) >>

NpotInit ==
  /\ \E shs \in [1 .. 3 -> NpotShapes] : \E dying \in SUBSET (0 .. 2) :
     \E last \in NpotShapes :
       LET blocks == Packed(shs, dying, last)
       IN \* the demand of the program fits the file
          /\ agx_calc_register_demand(TRUE, blocks[1].prog, Cardinality(NpotIds))
               <= max_regs
          /\ ctx = [blocks |-> blocks, input |-> blocks, next |-> 1,
                    outs |-> [k \in 1 .. Len(blocks) |-> [v \in NpotIds |-> 0]],
                    null |-> [k \in 1 .. Len(blocks) |-> TRUE],
                    writes |-> [k \in 1 .. Len(blocks) |-> 0],
                    pcopies |-> [k \in 1 .. Len(blocks) |-> NoCopies],
                    ins |-> [k \in 1 .. Len(blocks) |-> << >>],
                    reads |-> {}, abort |-> ""]
          /\ rctx = GatherProgram(NewCtx(TRUE, NpotIds, max_regs, NumMemRegs),
                                  AllInstrs(blocks, 1), 1)
  /\ block = [preds |-> << >>, live_in |-> {}, loop_header |-> FALSE,
              ssa_to_reg_out |-> [v \in Values |-> 0]]
  /\ instr = NoInstr
  /\ live = {}
  /\ regfile = [r \in 0 .. (max_regs - 1) |-> NoVal]
  /\ misread = {}
  /\ est = EmptyEst
  /\ steps = 0
  /\ pc = "blk_assign"

SpecNpot == NpotInit /\ [][NextBlk]_vars

\* widths as the first loop of agx_calc_register_demand records them for
\* the program given
RecordedWidths ==
  ProgGather(EmptyWidths(NpotIds), ctx.input[1].prog, 1)

\* the estimate of agx_calc_register_demand after the first i instructions
\* of the block
DemandAt(i) ==
  DemandWalk(demand_block(EmptyEst, rctx.any_cf, {}, RecordedWidths.widths,
                          RecordedWidths.classes),
             SubSeq(ctx.input[1].prog, 1, i), 1, RecordedWidths.widths)

MaxTokens == 3
\* the most vertices a property sets, or an uninitialized field holds
MaxVerts == 1
\* ~0u: above every instruction count
NoEND == 2147483647

Processors == {"FRAGMENT", "GEOMETRY", "TESS_CTRL"}

\* a scan_register
ScanReg(file, dimensions, index1, index2) ==
  [file |-> file, dimensions |-> dimensions, indices |-> << index1, index2 >>]

fill_scan_register1d(file, index) == ScanReg(file, 1, index, 0)
fill_scan_register2d(file, index1, index2) == ScanReg(file, 2, index1, index2)

\* scan_register_dst, scan_register_src
scan_register_of(op) ==
  IF op.Dimension THEN fill_scan_register2d(op.File, op.Index, op.DimIndex)
  ELSE fill_scan_register1d(op.File, op.Index)

\* failed and warned keep the messages handed to report_error and
\* report_warning, printed or not
report_error(c, msg) ==
  IF ~c.print THEN [c EXCEPT !.failed = @ \cup {msg}]
  ELSE [c EXCEPT !.failed = @ \cup {msg}, !.errors = @ + 1]

report_warning(c, msg) ==
  IF ~c.print THEN [c EXCEPT !.warned = @ \cup {msg}]
  ELSE [c EXCEPT !.warned = @ \cup {msg}, !.warnings = @ + 1]

\* file <= TGSI_FILE_NULL || file >= TGSI_FILE_COUNT
check_file_name(file) == file \notin {"NULL", "COUNT"}

is_register_declared(c, reg) == reg \in c.regs_decl
is_any_register_declared(c, file) == \E reg \in c.regs_decl : reg.file = file
is_register_used(c, reg) == reg \in c.regs_used
is_ind_register_used(c, reg) == reg.file \in c.regs_ind_used

check_register_usage(c, reg, name, indirect_access) ==
  IF ~check_file_name(reg.file)
    THEN report_error(c, "Invalid register file name")
  ELSE IF indirect_access THEN
    LET c1 == IF ~is_any_register_declared(c, reg.file)
                THEN report_error(c, "Undeclared register") ELSE c
    IN [c1 EXCEPT !.regs_ind_used = @ \cup {reg.file}]
  ELSE
    LET c1 == IF ~is_register_declared(c, reg)
                THEN report_error(c, "Undeclared register") ELSE c
    IN [c1 EXCEPT !.regs_used = @ \cup {reg}]

\* tgsi_get_opcode_info: the operand counts of an opcode, none for an
\* opcode out of range
OpcodeInfo(opcode) ==
  IF opcode = "END" THEN [known |-> TRUE, num_dst |-> 0, num_src |-> 0]
  ELSE IF opcode = "MOV" THEN [known |-> TRUE, num_dst |-> 1, num_src |-> 1]
  ELSE [known |-> FALSE, num_dst |-> 0, num_src |-> 0]

\* the loop over the destination operands
RECURSIVE SanityDsts(_, _, _)
SanityDsts(c, inst, i) ==
  IF i > Len(inst.Dst) THEN c
  ELSE
    Eval({ SanityDsts(IF inst.Dst[i].WriteMask = 0
                        THEN report_error(c1, "Destination register has empty writemask")
                        ELSE c1,
                      inst, i + 1) :
           c1 \in { check_register_usage(c, scan_register_of(inst.Dst[i]),
                                         "destination", FALSE) } })

\* the loop over the source operands
RECURSIVE SanitySrcs(_, _, _)
SanitySrcs(c, inst, i) ==
  IF i > Len(inst.Src) THEN c
  ELSE
    Eval({ SanitySrcs(IF inst.Src[i].Indirect
                        THEN check_register_usage(
                               c1, fill_scan_register1d(inst.Src[i].IndFile,
                                                        inst.Src[i].IndIndex),
                               "indirect", FALSE)
                        ELSE c1,
                      inst, i + 1) :
           c1 \in { check_register_usage(c, scan_register_of(inst.Src[i]),
                                         "source", inst.Src[i].Indirect) } })

iter_instruction(c, inst) ==
  Eval({ (
  IF ~OpcodeInfo(inst.Opcode).known
    THEN report_error(c1, "Invalid instruction opcode")
  ELSE
    Eval({ [c4 EXCEPT !.num_instructions = @ + 1] :
           c4 \in { SanitySrcs(
                      SanityDsts(
                        Eval({ IF OpcodeInfo(inst.Opcode).num_src # Len(inst.Src)
                                 THEN report_error(c2, "Invalid number of source operands")
                                 ELSE c2 :
                               c2 \in { IF OpcodeInfo(inst.Opcode).num_dst # Len(inst.Dst)
                                          THEN report_error(
                                                 c1, "Invalid number of destination operands")
                                          ELSE c1 } }),
                        inst, 1),
                      inst, 1) } })
  ) : c1 \in { IF inst.Opcode # "END" THEN c
               ELSE [(IF c.index_of_END # NoEND
                        THEN report_error(c, "Too many END instructions")
                        ELSE c) EXCEPT !.index_of_END = c.num_instructions] } })

check_and_declare(c, reg) ==
  [(IF is_register_declared(c, reg)
      THEN report_error(c, "The same register declared more than once")
      ELSE c) EXCEPT !.regs_decl = @ \cup {reg}]

\* the registers one index of a declaration declares, in order
DeclRegs(c, decl, i) ==
  IF /\ decl.File = "IN"
     /\ ~decl.patch
     /\ c.processor \in {"GEOMETRY", "TESS_CTRL", "TESS_EVAL"}
    THEN [vert \in 1 .. c.implied_array_size |->
            fill_scan_register2d(decl.File, i, vert - 1)]
  ELSE IF decl.File = "OUT" /\ ~decl.patch /\ c.processor = "TESS_CTRL"
    THEN [vert \in 1 .. c.implied_out_array_size |->
            fill_scan_register2d(decl.File, i, vert - 1)]
  ELSE IF decl.Dimension
    THEN << fill_scan_register2d(decl.File, i, decl.Index2D) >>
  ELSE << fill_scan_register1d(decl.File, i) >>

RECURSIVE DeclareAll(_, _, _)
DeclareAll(c, regs, n) ==
  IF n > Len(regs) THEN c
  ELSE DeclareAll(check_and_declare(c, regs[n]), regs, n + 1)

\* the loop over the range of a declaration
RECURSIVE DeclLoop(_, _, _)
DeclLoop(c, decl, i) ==
  IF i > decl.Last THEN c
  ELSE DeclLoop(DeclareAll(c, DeclRegs(c, decl, i), 1), decl, i + 1)

iter_declaration(c, decl) ==
  Eval({ IF ~check_file_name(decl.File)
           THEN report_error(c1, "Invalid register file name")
           ELSE DeclLoop(c1, decl, decl.First) :
         c1 \in { IF c.num_instructions > 0
                    THEN report_error(c, "Instruction expected but declaration found")
                    ELSE c } })

iter_immediate(c, imm) ==
  Eval({ IF ~imm.valid_type
           THEN report_error(c2, "Invalid immediate data type") ELSE c2 :
         c2 \in { [(IF c.num_instructions > 0
                      THEN report_error(c, "Instruction expected but immediate found")
                      ELSE c)
                    EXCEPT !.regs_decl = @ \cup {fill_scan_register1d("IMM", c.num_imms)},
                           !.num_imms = @ + 1] } })

iter_property(c, prop) ==
  LET c1 == IF c.processor = "GEOMETRY" /\ prop.name = "GS_INPUT_PRIM"
              THEN [c EXCEPT !.implied_array_size = prop.data] ELSE c
  IN IF c.processor = "TESS_CTRL" /\ prop.name = "TCS_VERTICES_OUT"
       THEN [c1 EXCEPT !.implied_out_array_size = prop.data] ELSE c1

prolog(c) ==
  IF c.processor \in {"TESS_CTRL", "TESS_EVAL"}
    THEN [c EXCEPT !.implied_array_size = 32] ELSE c

\* the declared registers that were never used
NeverUsed(c) ==
  {reg \in c.regs_decl : ~is_register_used(c, reg) /\ ~is_ind_register_used(c, reg)}

epilog(c) ==
  Eval({ IF NeverUsed(c) = {} THEN c1
         ELSE [report_warning(c1, "Register never used") EXCEPT
                 !.warnings = IF c.print THEN c1.warnings + Cardinality(NeverUsed(c))
                              ELSE @] :
         c1 \in { IF c.index_of_END = NoEND
                    THEN report_error(c, "Missing END instruction") ELSE c } })

\* the operands and tokens of the streams
SanityDst == [File : {"NULL", "TEMP"}, Index : {0}, Dimension : {FALSE},
              DimIndex : {0}, WriteMask : {0, 15}]
SanitySrc ==
  {x \in [File : {"TEMP", "IN"}, Index : {0}, Dimension : BOOLEAN,
          DimIndex : {0}, Indirect : BOOLEAN, IndFile : {"ADDR"}, IndIndex : {0}] :
     x.Dimension => x.File = "IN"}
SanityInstrs ==
  {inst \in [Opcode : {"END", "MOV", "BAD"},
             Dst : {<< >>} \cup {<< d >> : d \in SanityDst},
             Src : {<< >>} \cup {<< x >> : x \in SanitySrc}] :
     inst.Opcode = "BAD" => (inst.Dst = << >> /\ inst.Src = << >>)}
SanityDecls ==
  {d \in [File : {"NULL", "TEMP", "IN", "OUT", "ADDR"}, First : {0}, Last : {0, 1},
          Dimension : BOOLEAN, Index2D : {0}, patch : BOOLEAN] :
     /\ d.patch => d.File \in {"IN", "OUT"}
     /\ d.Dimension => d.File = "IN"
     /\ d.Last = 1 => d.File = "TEMP"}
SanityProps == [name : {"GS_INPUT_PRIM", "TCS_VERTICES_OUT"}, data : {MaxVerts}]

\* tgsi_sanity_check up to the call of tgsi_iterate_shader; the field
\* implied_out_array_size is not initialized and holds any value
SanityInit ==
  /\ \E print \in BOOLEAN : \E processor \in Processors : \E junk \in 0 .. MaxVerts :
       ctx = prolog([processor |-> processor,
                     regs_decl |-> {}, regs_used |-> {}, regs_ind_used |-> {},
                     num_imms |-> 0, num_instructions |-> 0, index_of_END |-> NoEND,
                     errors |-> 0, warnings |-> 0, implied_array_size |-> 0,
                     implied_out_array_size |-> junk, print |-> print,
                     failed |-> {}, warned |-> {}, tokens |-> 0,
                     retval |-> TRUE, result |-> FALSE])
  /\ rctx = EmptyCtx(FALSE)
  /\ block = [preds |-> << >>, live_in |-> {}, loop_header |-> FALSE,
              ssa_to_reg_out |-> [v \in Values |-> 0]]
  /\ instr = NoInstr
  /\ live = {}
  /\ regfile = [r \in 0 .. (max_regs - 1) |-> NoVal]
  /\ misread = {}
  /\ est = EmptyEst
  /\ steps = 0
  /\ pc = "sanity_iter"

\* tgsi_iterate_shader hands the next token to its callback
SanityDeclaration ==
  /\ pc = "sanity_iter"
  /\ ctx.tokens < MaxTokens
  /\ \E decl \in SanityDecls :
       ctx' = [iter_declaration(ctx, decl) EXCEPT !.tokens = @ + 1]
  /\ UNCHANGED << rctx, block, instr, live, regfile, misread, est, steps, pc >>

SanityImmediate ==
  /\ pc = "sanity_iter"
  /\ ctx.tokens < MaxTokens
  /\ \E valid_type \in BOOLEAN :
       ctx' = [iter_immediate(ctx, [valid_type |-> valid_type]) EXCEPT !.tokens = @ + 1]
  /\ UNCHANGED << rctx, block, instr, live, regfile, misread, est, steps, pc >>

SanityProperty ==
  /\ pc = "sanity_iter"
  /\ ctx.tokens < MaxTokens
  /\ \E prop \in SanityProps :
       ctx' = [iter_property(ctx, prop) EXCEPT !.tokens = @ + 1]
  /\ UNCHANGED << rctx, block, instr, live, regfile, misread, est, steps, pc >>

SanityInstruction ==
  /\ pc = "sanity_iter"
  /\ ctx.tokens < MaxTokens
  /\ \E inst \in SanityInstrs :
       ctx' = [iter_instruction(ctx, inst) EXCEPT !.tokens = @ + 1]
  /\ UNCHANGED << rctx, block, instr, live, regfile, misread, est, steps, pc >>

\* the stream ends: epilog, then the return of tgsi_sanity_check
SanityReturn ==
  /\ pc = "sanity_iter"
  /\ \E c \in { epilog(ctx) } :
       ctx' = [c EXCEPT !.retval = TRUE, !.result = (c.errors = 0)]
  /\ pc' = "sanity_done"
  /\ UNCHANGED << rctx, block, instr, live, regfile, misread, est, steps >>

\* tgsi_iterate_shader cannot parse the stream and returns false
SanityUnparsed ==
  /\ pc = "sanity_iter"
  /\ ctx.tokens = 0
  /\ ctx' = [ctx EXCEPT !.retval = FALSE, !.result = FALSE]
  /\ pc' = "sanity_done"
  /\ UNCHANGED << rctx, block, instr, live, regfile, misread, est, steps >>

NextSanity ==
  \/ SanityDeclaration
  \/ SanityImmediate
  \/ SanityProperty
  \/ SanityInstruction
  \/ SanityReturn
  \/ SanityUnparsed

SpecSanity == SanityInit /\ [][NextSanity]_vars

\* C40: tgsi_sanity_check returns false for every token stream in which one
\* of its checks fails (a declaration or an immediate after the first
\* instruction, no END instruction or more than one, an undeclared register,
\* a register declared more than once, a wrong number of source or
\* destination operands, an empty destination writemask), and returns true
\* only when iteration succeeded and no check failed; a declared but never
\* used register gives a warning only and does not change the result.
C40_FalseOnFailedCheck ==
  pc = "sanity_done" => (ctx.result <=> (ctx.retval /\ ctx.failed = {}))

=============================================================================
